---- MODULE Spec2Model ----
(***************************************************************************)
(* A model of the sweep and spectral-analysis engine of amp_benchkit:      *)
(*   - the headless sweep orchestrators   (amp_benchkit/automation.py)     *)
(*   - the GUI sweeps with cooperative abort (unified_gui_layout.py)       *)
(*   - the THD tab's capture worker and consumer (amp_benchkit/gui/        *)
(*     thd_tab.py)                                                         *)
(*   - the frequency plan generator build_freq_points (automation.py)      *)
(*   - the spectral analysers and the knee detector (amp_benchkit/dsp.py,  *)
(*     amp_benchkit/dsp_ext.py), their sample interval, and two calls in a *)
(*     row of one analyser                                                 *)
(*   - configuration persistence (amp_benchkit/config.py)                  *)
(*                                                                         *)
(* Real numbers are modelled by integers.  Two sentinels stand for the     *)
(* Python values float('nan') and None; every value a callback returns is  *)
(* a positive integer, so a sentinel is never confused with a measurement. *)
(***************************************************************************)
EXTENDS Integers, Sequences, FiniteSets, TLC

VARIABLES
    \* ---- automation.py: sweep_audio_kpis / sweep_scope_fixed ----
    fn,          \* which orchestrator is running
    freqs,       \* the plan handed to it
    do_thd,      \* keyword argument do_thd
    do_knees,    \* keyword argument do_knees
    drop_db,     \* keyword argument drop_db, in dB
    dwell_s,     \* keyword argument dwell_s, in seconds
    pc,          \* position of the orchestrator
    i,           \* 1-based index of the plan frequency being processed
    loc,         \* the loop body's locals (captured waveform, vr, pp)
    rows,        \* rows (sweep_audio_kpis) / out (sweep_scope_fixed)
    vrms_vals,   \* the RMS accumulator fed to the knee detector
    result,      \* the returned dict: rows, and knees when attached
    ret,         \* history: what the metric callbacks returned at each index
    kneeCalls,   \* history: the arguments of every dsp_find_knees call
    trace,       \* history: callback invocations and row recordings, in order
    \* ---- unified_gui_layout.py: run_sweep_scope_fixed / run_audio_kpis ----
    g_fn,        \* which GUI sweep is running
    g_in,        \* the text fields: start, stop, step, and the THD checkbox
    g_f,         \* loop variable f of the list-building loop
    g_freqs,     \* freqs
    g_pc,        \* position of the GUI sweep
    g_i,         \* 1-based index of the sweep point
    g_abort,     \* self._sweep_abort
    g_loc,       \* locals of the loop body (captured waveform)
    g_out,       \* out
    g_csv,       \* the data lines written to the CSV file
    g_hist,      \* history: which call failed at each point, abort, Stop, error
    g_trace,     \* history: flag examinations, call starts and call ends
    \* ---- amp_benchkit/gui/thd_tab.py: capture worker and consumer ----
    thd_timer,          \* gui.thd_timer.isActive()
    thd_capture_stop,   \* gui.thd_capture_stop.is_set()
    thd_capture_queue,  \* gui.thd_capture_queue
    thd_last_wave,      \* gui.thd_last_wave (0: None)
    w_pc,               \* position of the capture worker thread
    w_wave,             \* the worker's local wave
    c_pc,               \* position of the GUI thread
    clock,              \* number of captures made so far; a waveform is
                        \* identified by the number of its capture
    analysed,           \* history: the waveforms _compute_thd analysed
    dropped,            \* history: waveforms the worker captured and lost
    \* ---- amp_benchkit/automation.py: build_freq_points ----
    p_in,        \* the arguments: start, stop, points, mode
    p_pc,        \* "call" before the call, "returned" or "raised" after it
    p_out,       \* the list returned
    \* ---- amp_benchkit/dsp.py, dsp_ext.py: the spectral analysers ----
    d_in,        \* the arguments: the waveform's sample count and spectrum,
                 \* the bin spacing, f0, nharm
    d_fn,        \* the analyser that was called
    d_pc,        \* "call" before the call, "returned" or "raised" after it
    d_out,       \* the value returned
    d_loc,       \* history: the call's locals idx and noise_mask
    \* ---- amp_benchkit/dsp.py: find_knees ----
    k_in,  \* the arguments: freqs, amps, ref_mode, ref_hz, drop_db
    k_pc,  \* "call" before the call, "returned" after it
    k_out,  \* the tuple returned
    \* ---- repeated calls of the analysers (dsp.py, dsp_ext.py) ----
    r_heap,  \* the objects of the Python heap, the caller's t and v first
    r_args,  \* f0, nharm, and the caller's copy of t and v taken before the first call
    r_prev,  \* what the first of two calls returned
    \* ---- configuration persistence (config.py) ----
    cfg_cache,  \* the module-level _cache
    cfg_file,  \* the contents of the file at CONFIG_PATH
    cfg_out,  \* what the last load_config returned
    cfg_written,  \* the latest value that update_config wrote for each key
    cfg_calls,  \* the writers called so far: none, update_config only, or save_config too
    cfg_last,  \* the last call and its argument
    cfg_prev,  \* the call before the last
    \* ---- the sample interval of the analysers (dsp.py:35-38, 144-147) ----
    t_in,  \* the time values t of the waveform, in units of the smallest positive double
    t_fn,  \* the analyser that was called
    t_pc,  \* position of the call
    t_dt  \* the sample interval dt the analyser settled on

sweepVars == <<fn, freqs, do_thd, do_knees, drop_db, dwell_s, pc, i, loc, rows, vrms_vals,
               result, ret, kneeCalls, trace>>

guiVars == <<g_fn, g_in, g_f, g_freqs, g_pc, g_i, g_abort, g_loc, g_out, g_csv,
             g_hist, g_trace>>

thdVars == <<thd_timer, thd_capture_stop, thd_capture_queue, thd_last_wave, w_pc,
             w_wave, c_pc, clock, analysed, dropped>>

planVars == <<p_in, p_pc, p_out>>

dspVars == <<d_in, d_fn, d_pc, d_out, d_loc>>

kneeVars == <<k_in, k_pc, k_out>>

repVars == <<r_heap, r_args, r_prev>>

cfgVars == <<cfg_cache, cfg_file, cfg_out, cfg_written, cfg_calls, cfg_last, cfg_prev>>

dtVars == <<t_in, t_fn, t_pc, t_dt>>

vars == <<sweepVars, guiVars, thdVars, planVars, dspVars, kneeVars, repVars, cfgVars, dtVars>>

\* What the actions of one part leave alone: the variables of the other parts.
notSweep == <<guiVars, thdVars, planVars, dspVars, kneeVars, repVars, cfgVars, dtVars>>
notGui == <<sweepVars, thdVars, planVars, dspVars, kneeVars, repVars, cfgVars, dtVars>>
notThd == <<sweepVars, guiVars, planVars, dspVars, kneeVars, repVars, cfgVars, dtVars>>
notThdCfg == <<sweepVars, guiVars, planVars, dspVars, kneeVars, repVars, dtVars>>
notPlan == <<sweepVars, guiVars, thdVars, dspVars, kneeVars, repVars, cfgVars, dtVars>>
notDsp == <<sweepVars, guiVars, thdVars, planVars, kneeVars, repVars, cfgVars, dtVars>>
notKnee == <<sweepVars, guiVars, thdVars, planVars, dspVars, repVars, cfgVars, dtVars>>
notRep == <<sweepVars, guiVars, thdVars, planVars, dspVars, kneeVars, cfgVars, dtVars>>
notDspRep == <<sweepVars, guiVars, thdVars, planVars, kneeVars, cfgVars, dtVars>>
notCfg == <<sweepVars, guiVars, thdVars, planVars, dspVars, kneeVars, repVars, dtVars>>
notDt == <<sweepVars, guiVars, thdVars, planVars, dspVars, kneeVars, repVars, cfgVars>>

----------------------------------------------------------------------------
\* Bounds of the model.
MaxPlan == 3      \* longest frequency plan
MaxWave == 2      \* number of distinct waveforms a capture can return
MaxStop == 3      \* largest stop frequency typed into the automation tab
MaxCaptures == 4  \* captures made by the THD tab in one run of the model
MaxTick == 25     \* largest start / stop handed to build_freq_points, in 1e-7 Hz
MaxPoints == 4    \* largest number of points asked of build_freq_points

\* Sentinels for float('nan') and None.
NaN == -1
NoneVal == -2

----------------------------------------------------------------------------
\* The plans handed to the orchestrators: k-th frequency is 100*k Hz.
Plans == { [k \in 1..n |-> 100 * k] : n \in 1..MaxPlan }

Waves == 1..MaxWave

\* The injected metric callbacks, when they return: a value that identifies
\* the callback and the waveform it was given.
dsp_vrms(w) == 10 * w + 1
dsp_vpp(w) == 10 * w + 2
dsp_thd_fft(w) == 10 * w + 3
scope_measure(w) == 10 * w + 4
\* The injected knee detector returns a value that identifies its arguments.
dsp_find_knees(fs, amps) == <<"knees", fs, amps>>

\* Values of the dwell_s argument, in seconds (automation.py:60, 87).
Dwells == {0, 1}

\* Values of the drop_db argument; 3.0 is its default (automation.py:98).
DropDbs == {-1, 0, 3}

NoLoc == [w |-> 0, vr |-> 0, pp |-> 0]
NoRet == [vr |-> NoneVal, pp |-> NoneVal, thd |-> NoneVal, val |-> NoneVal,
          raised |-> "no"]

SweepIdle ==
    /\ fn = "none" /\ freqs = <<>> /\ do_thd = FALSE /\ do_knees = FALSE
    /\ drop_db = 0 /\ dwell_s = 0
    /\ pc = "idle" /\ i = 0 /\ loc = NoLoc /\ rows = <<>> /\ vrms_vals = <<>>
    /\ result = [rows |-> <<>>, has_knees |-> FALSE, knees |-> <<>>]
    /\ ret = <<>> /\ kneeCalls = <<>> /\ trace = <<>>

\* State at entry of an orchestrator's loop (automation.py:70, 104-105).
SweepInit ==
    /\ fn \in {"sweep_audio_kpis", "sweep_scope_fixed"}
    /\ freqs \in Plans
    /\ do_thd \in BOOLEAN
    /\ do_knees \in BOOLEAN
    /\ drop_db \in DropDbs
    /\ dwell_s \in Dwells
    /\ fn = "sweep_scope_fixed" => (~do_thd /\ ~do_knees)
    /\ ~do_knees => drop_db = 3      \* the default, where drop_db is not read
    /\ pc = "apply"
    /\ i = 1
    /\ loc = NoLoc
    /\ rows = <<>>
    /\ vrms_vals = <<>>
    /\ result = [rows |-> <<>>, has_knees |-> FALSE, knees |-> <<>>]
    /\ ret = [k \in 1..Len(freqs) |-> NoRet]
    /\ kneeCalls = <<>>
    /\ trace = <<>>

\* The history of callbacks that returned or raised at index i is in ret[i]:
\* raised names the callback that raised there ("no" when none did).

\* Mutant: the except clause leaves zeros instead of NaN.
ExceptRowZero(f) == <<f, 0, 0, IF do_thd THEN 0 ELSE NoneVal>>

\* The row of the except clause (automation.py:116-118).
ExceptRow(f) == <<f, NaN, NaN, IF do_thd THEN NaN ELSE NoneVal>>

\* rows.append(...) and the loop's advance (automation.py:106, 119).
\* ev: the callback invocation that led here; vv: the accumulator afterwards.
RecordRow(ev, row, vv, r) ==
    /\ rows' = Append(rows, row)
    /\ trace' = trace \o <<ev, <<"row", i>>>>
    /\ vrms_vals' = vv
    /\ ret' = [ret EXCEPT ![i] = r]
    /\ loc' = NoLoc
    /\ i' = i + 1
    /\ pc' = IF i + 1 > Len(freqs) THEN "return" ELSE "apply"
    /\ UNCHANGED <<fn, freqs, do_thd, do_knees, drop_db, dwell_s, result, kneeCalls>>

\* A callback returned and the loop body goes on to the next callback.
GoOn(ev, next, l, vv, r) ==
    /\ pc' = next
    /\ trace' = Append(trace, ev)
    /\ loc' = l
    /\ vrms_vals' = vv
    /\ ret' = [ret EXCEPT ![i] = r]
    /\ UNCHANGED <<fn, freqs, do_thd, do_knees, drop_db, dwell_s, i, rows, result, kneeCalls>>

\* Mutant: a failed point is skipped without a row.
RaisedSkip(ev) ==
    /\ trace' = Append(trace, ev)
    /\ ret' = [ret EXCEPT ![i].raised = ev[1]]
    /\ loc' = NoLoc
    /\ i' = i + 1
    /\ pc' = IF i + 1 > Len(freqs) THEN "return" ELSE "apply"
    /\ UNCHANGED <<fn, freqs, do_thd, do_knees, drop_db, dwell_s, rows, vrms_vals,
                   result, kneeCalls>>

\* A callback raised: the except clause, then rows.append (automation.py:116-119).
Raised(ev) ==
    RecordRow(ev, ExceptRow(freqs[i]), vrms_vals, [ret[i] EXCEPT !.raised = ev[1]])

\* Mutant: a stimulus that raised is applied again for the same frequency.
KpisApplyRetry ==
    /\ fn = "sweep_audio_kpis" /\ pc = "apply"
    /\ \/ GoOn(<<"fy_apply", i>>, "capture", loc, vrms_vals, ret[i])
       \/ /\ Len(trace) < 2 * MaxPlan
          /\ GoOn(<<"fy_apply", i>>, "apply", loc, vrms_vals,
                  [ret[i] EXCEPT !.raised = "fy_apply"])
    /\ UNCHANGED notSweep

\* fy_apply(freq_hz=f, ...) (automation.py:108).
KpisApply ==
    /\ fn = "sweep_audio_kpis" /\ pc = "apply"
    /\ \/ GoOn(<<"fy_apply", i>>, "capture", loc, vrms_vals, ret[i])
       \/ Raised(<<"fy_apply", i>>)
    /\ UNCHANGED notSweep

\* Mutant: the stimulus of the next frequency is applied while the metrics of
\* this one are still to be computed (capture of i, then stimulus of i+1).
KpisCapturePipelined ==
    /\ fn = "sweep_audio_kpis" /\ pc = "capture"
    /\ \/ \E w \in Waves :
            /\ trace' = trace \o <<<<"capture", i>>, <<"fy_apply", i + 1>>>>
            /\ pc' = "vrms"
            /\ loc' = [loc EXCEPT !.w = w]
            /\ UNCHANGED <<fn, freqs, do_thd, do_knees, drop_db, dwell_s, i, rows,
                           vrms_vals, result,
                           ret, kneeCalls>>
       \/ Raised(<<"capture", i>>)
    /\ UNCHANGED notSweep

\* t, v = scope_capture_calibrated(...) (automation.py:109).
KpisCapture ==
    /\ fn = "sweep_audio_kpis" /\ pc = "capture"
    /\ \/ \E w \in Waves :
            GoOn(<<"capture", i>>, "vrms", [loc EXCEPT !.w = w], vrms_vals, ret[i])
       \/ Raised(<<"capture", i>>)
    /\ UNCHANGED notSweep

\* vr = dsp_vrms(v) (automation.py:110).
KpisVrms ==
    /\ fn = "sweep_audio_kpis" /\ pc = "vrms"
    /\ \/ GoOn(<<"dsp_vrms", i>>, "vpp", [loc EXCEPT !.vr = dsp_vrms(loc.w)],
               vrms_vals, [ret[i] EXCEPT !.vr = dsp_vrms(loc.w)])
       \/ Raised(<<"dsp_vrms", i>>)
    /\ UNCHANGED notSweep

\* pp = dsp_vpp(v); vrms_vals.append(vr); thd_ratio = None; and, without THD,
\* rows.append (automation.py:111-114, 119).
KpisVpp ==
    /\ fn = "sweep_audio_kpis" /\ pc = "vpp"
    /\ LET pp == dsp_vpp(loc.w)
           r == [ret[i] EXCEPT !.pp = pp]
       IN  \/ /\ do_thd
              /\ GoOn(<<"dsp_vpp", i>>, "thd", [loc EXCEPT !.pp = pp],
                      Append(vrms_vals, loc.vr), r)
           \/ /\ ~do_thd
              /\ RecordRow(<<"dsp_vpp", i>>, <<freqs[i], loc.vr, pp, NoneVal>>,
                           Append(vrms_vals, loc.vr), r)
           \/ Raised(<<"dsp_vpp", i>>)
    /\ UNCHANGED notSweep

\* thd_ratio, _f_est, _ = dsp_thd_fft(t, v, f); rows.append (automation.py:115, 119).
KpisThd ==
    /\ fn = "sweep_audio_kpis" /\ pc = "thd"
    /\ LET th == dsp_thd_fft(loc.w)
       IN  \/ RecordRow(<<"dsp_thd_fft", i>>, <<freqs[i], loc.vr, loc.pp, th>>,
                        vrms_vals, [ret[i] EXCEPT !.thd = th])
           \/ Raised(<<"dsp_thd_fft", i>>)
    /\ UNCHANGED notSweep

\* The amplitude series handed to the knee detector (automation.py:124).
KneeAmps == vrms_vals

\* After the loop: result = {"rows": rows}; the knee detector, when requested
\* and the accumulator is not empty; return (automation.py:120-126).
KpisReturn ==
    /\ fn = "sweep_audio_kpis" /\ pc = "return"
    /\ pc' = "done"
    /\ IF do_knees /\ vrms_vals # <<>>
       THEN /\ kneeCalls' = Append(kneeCalls, [fs |-> freqs, amps |-> KneeAmps,
                                              drop_db |-> drop_db])
            /\ result' = [rows |-> rows, has_knees |-> TRUE,
                          knees |-> dsp_find_knees(freqs, KneeAmps)]
            /\ trace' = Append(trace, <<"dsp_find_knees", 0>>)
       ELSE /\ result' = [rows |-> rows, has_knees |-> FALSE, knees |-> <<>>]
            /\ UNCHANGED <<kneeCalls, trace>>
    /\ UNCHANGED <<fn, freqs, do_thd, do_knees, drop_db, dwell_s, i, loc, rows, vrms_vals, ret>>
    /\ UNCHANGED notSweep

\* The row of sweep_scope_fixed's except clause (automation.py:75-77).
FixedExceptRow(f) == <<f, NaN>>

\* A callback raised: val = nan, then out.append (automation.py:75-77).
FixedRaised(ev) ==
    RecordRow(ev, FixedExceptRow(freqs[i]), vrms_vals, [ret[i] EXCEPT !.raised = ev[1]])

\* fy_apply(freq_hz=f, ...) in sweep_scope_fixed (automation.py:73, 75-77).
FixedApply ==
    /\ fn = "sweep_scope_fixed" /\ pc = "apply"
    /\ \/ GoOn(<<"fy_apply", i>>, "measure", loc, vrms_vals, ret[i])
       \/ FixedRaised(<<"fy_apply", i>>)
    /\ UNCHANGED notSweep

\* val = scope_measure(scope_channel, metric); out.append (automation.py:74-77).
FixedMeasure ==
    /\ fn = "sweep_scope_fixed" /\ pc = "measure"
    /\ \/ \E w \in Waves :
            RecordRow(<<"scope_measure", i>>, <<freqs[i], scope_measure(w)>>,
                      vrms_vals, [ret[i] EXCEPT !.val = scope_measure(w)])
       \/ FixedRaised(<<"scope_measure", i>>)
    /\ UNCHANGED notSweep

\* return out (automation.py:78).
FixedReturn ==
    /\ fn = "sweep_scope_fixed" /\ pc = "return"
    /\ pc' = "done"
    /\ result' = [rows |-> rows, has_knees |-> FALSE, knees |-> <<>>]
    /\ UNCHANGED <<fn, freqs, do_thd, do_knees, drop_db, dwell_s, i, loc, rows, vrms_vals, ret,
                   kneeCalls, trace>>
    /\ UNCHANGED notSweep

\* No GUI sweep is running.
GuiIdle ==
    /\ g_fn = "none" /\ g_in = <<>> /\ g_f = 0 /\ g_freqs = <<>> /\ g_pc = "idle"
    /\ g_i = 0 /\ g_abort = FALSE /\ g_loc = 0 /\ g_out = <<>> /\ g_csv = <<>>
    /\ g_hist = <<>> /\ g_trace = <<>>

\* The queue of the THD tab: queue.Queue(maxsize=1) (thd_tab.py:117-118).
ThdQueueMaxsize == 1

\* The THD tab as build_thd_tab leaves it (thd_tab.py:113-120).
ThdInit ==
    /\ thd_timer = FALSE /\ thd_capture_stop = FALSE /\ thd_capture_queue = <<>>
    /\ thd_last_wave = 0 /\ w_pc = "none" /\ w_wave = 0 /\ c_pc = "idle"
    /\ clock = 0 /\ analysed = <<>> /\ dropped = <<>>

SweepNext ==
    \/ KpisApply \/ KpisCapture \/ KpisVrms \/ KpisVpp \/ KpisThd \/ KpisReturn
    \/ FixedApply \/ FixedMeasure \/ FixedReturn

\* No plan is being generated.
PlanIdle == p_in = <<>> /\ p_pc = "idle" /\ p_out = <<>>
DspIdle ==
    d_in = <<>> /\ d_fn = "none" /\ d_pc = "idle" /\ d_out = <<>> /\ d_loc = <<>>

KneeIdle ==
    k_in = <<>> /\ k_pc = "idle" /\ k_out = <<>>

RepIdle ==
    r_heap = <<>> /\ r_args = <<>> /\ r_prev = <<>>

CfgIdle ==
    /\ cfg_cache = [set |-> FALSE, obj |-> <<>>]
    /\ cfg_file = [kind |-> "absent", obj |-> <<>>]
    /\ cfg_out = <<>>
    /\ cfg_written = <<>>
    /\ cfg_calls = "none"
    /\ cfg_last = [op |-> "none", arg |-> <<>>]
    /\ cfg_prev = [op |-> "none", arg |-> <<>>]

DtIdle ==
    t_in = <<>> /\ t_fn = "none" /\ t_pc = "idle" /\ t_dt = <<>>

Init == SweepInit /\ GuiIdle /\ ThdInit /\ PlanIdle /\ DspIdle /\ KneeIdle /\ RepIdle /\ CfgIdle /\ DtIdle
Next == SweepNext
Spec == Init /\ [][Next]_vars

----------------------------------------------------------------------------
\* The GUI sweeps of the automation tab.

\* Run sweep or Run audio KPIs was clicked: the fields of the automation tab
\* as the method is about to read them (unified_gui_layout.py:1667, 1671-1675,
\* 1713, 1785).  The port field is empty, as tab_automation creates it, or
\* holds a port name.
GuiInit ==
    /\ g_fn \in {"run_sweep_scope_fixed", "run_audio_kpis"}
    /\ g_in \in [start : 1..2, stop : 1..MaxStop, step : 0..2, do_thd : BOOLEAN,
                  port : {"", "COM3"}]
    /\ g_fn = "run_sweep_scope_fixed" => ~g_in.do_thd
    /\ g_f = 0
    /\ g_freqs = <<>>
    /\ g_pc = "start"
    /\ g_i = 0
    /\ g_abort \in BOOLEAN      \* left over from an earlier sweep
    /\ g_loc = 0
    /\ g_out = <<>>
    /\ g_csv = <<>>
    /\ g_hist = [failed |-> <<>>, broke |-> FALSE, stopAt |-> "never", error |-> "none"]
    /\ g_trace = <<>>

\* The fields are read, up to freqs=[]; f=start.  run_audio_kpis reads the
\* port here: pt = (self.auto_port.text().strip() ...) or find_fy_port(); the
\* module never binds the name find_fy_port, so with an empty port field the
\* call raises NameError, which the method's outer `except Exception` logs;
\* the method returns with no list built and _sweep_abort as it was
\* (unified_gui_layout.py:1714-1719, 1787-1821, 1911-1912).
GuiParse ==
    /\ g_pc = "start"
    /\ IF g_fn = "run_audio_kpis" /\ g_in.port = ""
       THEN /\ g_pc' = "error"
            /\ g_hist' = [g_hist EXCEPT !.error = "find_fy_port"]
            /\ UNCHANGED g_f
       ELSE /\ g_pc' = "build"
            /\ g_f' = g_in.start
            /\ UNCHANGED g_hist
    /\ UNCHANGED <<g_fn, g_in, g_freqs, g_i, g_abort, g_loc, g_out, g_csv, g_trace>>
    /\ UNCHANGED notGui

\* while f <= stop + 1e-9: freqs.append(round(f,6)); f += step; then
\* self._sweep_abort = False (unified_gui_layout.py:1720-1722, 1822-1825).
\* run_sweep_scope_fixed reads the port after that (unified_gui_layout.py:1724)
\* and with an empty port field ends in the same NameError, before the loop
\* over the points.
\* Start, stop and step are whole numbers of Hz here, so the tolerance and the
\* rounding change nothing.  A loop that ends appends at most MaxStop
\* frequencies; the list of a loop that goes on is kept to its first
\* MaxStop + 1 entries.
GuiBuild ==
    /\ g_pc = "build"
    /\ IF g_f <= g_in.stop
       THEN /\ g_freqs' = IF Len(g_freqs) <= MaxStop THEN Append(g_freqs, g_f)
                          ELSE g_freqs
            /\ g_f' = g_f + g_in.step
            /\ UNCHANGED <<g_pc, g_i, g_abort, g_hist>>
       ELSE /\ g_abort' = FALSE
            /\ IF g_fn = "run_sweep_scope_fixed" /\ g_in.port = ""
               THEN /\ g_pc' = "error"
                    /\ g_hist' = [g_hist EXCEPT
                                    !.failed = [k \in 1..Len(g_freqs) |-> "no"],
                                    !.error = "find_fy_port"]
                    /\ UNCHANGED g_i
               ELSE /\ g_i' = 1
                    /\ g_pc' = IF g_freqs = <<>> THEN "save" ELSE "check"
                    /\ g_hist' = [g_hist EXCEPT
                                    !.failed = [k \in 1..Len(g_freqs) |-> "no"]]
            /\ UNCHANGED <<g_freqs, g_f>>
    /\ UNCHANGED <<g_fn, g_in, g_loc, g_out, g_csv, g_trace>>
    /\ UNCHANGED notGui

\* freqs.append or round raises MemoryError in a list-building loop that does
\* not end (step = 0): the list has outgrown every plan of a loop that ends.
\* The method's outer `except Exception` logs it and the method returns, with
\* _sweep_abort as it was (unified_gui_layout.py:1720-1721, 1783-1784,
\* 1822-1823, 1911-1912).
GuiMemoryError ==
    /\ g_pc = "build"
    /\ g_f <= g_in.stop
    /\ Len(g_freqs) > MaxStop
    /\ g_pc' = "error"
    /\ g_hist' = [g_hist EXCEPT !.error = "MemoryError"]
    /\ UNCHANGED <<g_fn, g_in, g_f, g_freqs, g_i, g_abort, g_loc, g_out, g_csv, g_trace>>
    /\ UNCHANGED notGui

\* The loop goes to the next point, or ends (for i,f in enumerate(freqs)).
GuiAdvance ==
    /\ g_i' = g_i + 1
    /\ g_pc' = IF g_i + 1 > Len(g_freqs) THEN "save" ELSE "check"

\* Mutant: the abort flag is examined and ignored.
GuiCheckNoBreak ==
    /\ g_pc = "check"
    /\ g_pc' = "in_apply"
    /\ g_trace' = g_trace \o
          <<<<IF g_abort THEN "check_set" ELSE "check_clear", g_i>>,
            <<"fy_apply_start", g_i>>>>
    /\ UNCHANGED <<g_fn, g_in, g_f, g_freqs, g_i, g_abort, g_loc, g_out, g_csv, g_hist>>
    /\ UNCHANGED notGui

\* if self._sweep_abort: break; otherwise fy_apply(...) is called
\* (unified_gui_layout.py:1747-1749, 1830-1833).
GuiCheck ==
    /\ g_pc = "check"
    /\ IF g_abort
       THEN /\ g_pc' = "save"
            /\ g_trace' = Append(g_trace, <<"check_set", g_i>>)
            /\ g_hist' = [g_hist EXCEPT !.broke = TRUE]
       ELSE /\ g_pc' = "in_apply"
            /\ g_trace' = g_trace \o <<<<"check_clear", g_i>>, <<"fy_apply_start", g_i>>>>
            /\ UNCHANGED g_hist
    /\ UNCHANGED <<g_fn, g_in, g_f, g_freqs, g_i, g_abort, g_loc, g_out, g_csv>>
    /\ UNCHANGED notGui

\* fy_apply returns and the method goes on to its waits; or fy_apply raises:
\* the error is logged and `continue` goes to the next point without appending
\* to out (unified_gui_layout.py:1748-1752, 1832-1836).
GuiApplyEnd ==
    /\ g_pc = "in_apply"
    /\ \/ /\ g_pc' = "dwell"
          /\ g_trace' = Append(g_trace, <<"fy_apply_end", g_i>>)
          /\ UNCHANGED <<g_i, g_hist>>
       \/ /\ GuiAdvance
          /\ g_trace' = Append(g_trace, <<"fy_apply_end", g_i>>)
          /\ g_hist' = [g_hist EXCEPT !.failed[g_i] = "fy_apply"]
    /\ UNCHANGED <<g_fn, g_in, g_f, g_freqs, g_abort, g_loc, g_out, g_csv>>
    /\ UNCHANGED notGui

\* The waits between the stimulus and the capture are over: time.sleep(dwell),
\* optional MATH / EXT trigger set-up and scope_wait_single_complete (their
\* errors are only logged); the capture call starts
\* (unified_gui_layout.py:1752-1770, 1837-1867).
GuiCaptureStart ==
    /\ g_pc = "dwell"
    /\ g_pc' = "in_capture"
    /\ g_trace' = Append(g_trace, <<"capture_start", g_i>>)
    /\ UNCHANGED <<g_fn, g_in, g_f, g_freqs, g_i, g_abort, g_loc, g_out, g_csv, g_hist>>
    /\ UNCHANGED notGui

\* thd_percent = float(thd_ratio*100.0) if np.isfinite(thd_ratio) else nan
\* (unified_gui_layout.py:1878).
ThdPercent(x) == IF x = NaN THEN NaN ELSE 100 * x

\* out.append(...), failed naming the call of this point that raised and was
\* answered with NaN; progress bar; QApplication.processEvents(): the module
\* never binds the name QApplication, so the call raises NameError, which the
\* method's outer `except Exception` logs as "Sweep error: ..." or "KPI sweep
\* error: ..."; the method returns (unified_gui_layout.py:1773-1775, 1783-1784,
\* 1882-1887, 1911-1912).
GuiAppend(row, failed) ==
    /\ g_out' = Append(g_out, row)
    /\ g_loc' = 0
    /\ g_pc' = "error"
    /\ g_hist' = [g_hist EXCEPT !.error = "QApplication", !.failed[g_i] = failed]
    /\ UNCHANGED g_i

\* The capture call ends.  run_sweep_scope_fixed: val = self.scope_measure(src, typ),
\* NaN when it raises, out.append((f,val)) (unified_gui_layout.py:1768-1773).
\* run_audio_kpis: t, v = scope_capture_calibrated(...), t = []; v = [] when it
\* raises; vr = vrms(v) if v else nan; pp likewise; thd_ratio = nan; thd_fft is
\* called next when the box is checked and v is not empty, else out.append
\* (unified_gui_layout.py:1865-1882).
GuiCaptureEnd ==
    /\ g_pc = "in_capture"
    /\ g_trace' = Append(g_trace, <<"capture_end", g_i>>)
    /\ \/ \E w \in Waves :
            IF g_fn = "run_sweep_scope_fixed"
            THEN GuiAppend(<<g_freqs[g_i], scope_measure(w)>>, "no")
            ELSE IF g_in.do_thd
                 THEN /\ g_pc' = "thd"
                      /\ g_loc' = w
                      /\ UNCHANGED <<g_i, g_out, g_hist>>
                 ELSE GuiAppend(<<g_freqs[g_i], dsp_vrms(w), dsp_vpp(w), NaN, NaN>>, "no")
       \/ IF g_fn = "run_sweep_scope_fixed"
          THEN GuiAppend(<<g_freqs[g_i], NaN>>, "capture")
          ELSE GuiAppend(<<g_freqs[g_i], NaN, NaN, NaN, NaN>>, "capture")
    /\ UNCHANGED <<g_fn, g_in, g_f, g_freqs, g_abort, g_csv>>
    /\ UNCHANGED notGui

\* thd_ratio, f_est, _ = thd_fft(t, v, f0=f, ...), NaN when it raises; then
\* out.append (unified_gui_layout.py:1875-1882).
GuiThd ==
    /\ g_pc = "thd"
    /\ \/ GuiAppend(<<g_freqs[g_i], dsp_vrms(g_loc), dsp_vpp(g_loc),
                      dsp_thd_fft(g_loc), ThdPercent(dsp_thd_fft(g_loc))>>, "no")
       \/ GuiAppend(<<g_freqs[g_i], dsp_vrms(g_loc), dsp_vpp(g_loc), NaN,
                      ThdPercent(NaN)>>, "thd_fft")
    /\ UNCHANGED <<g_fn, g_in, g_f, g_freqs, g_abort, g_csv, g_trace>>
    /\ UNCHANGED notGui

\* The loop has ended without an append, or was left by break: the CSV file
\* is to be written, a header and one line per element of out.  The module
\* never imports os, so os.makedirs raises NameError before the file is
\* opened; the method's outer `except Exception` logs it and the method
\* returns with no file written (unified_gui_layout.py:1776-1784, 1889-1895,
\* 1911-1912).
GuiSave ==
    /\ g_pc = "save"
    /\ g_pc' = "error"
    /\ g_hist' = [g_hist EXCEPT !.error = "os"]
    /\ UNCHANGED <<g_fn, g_in, g_f, g_freqs, g_i, g_abort, g_loc, g_out, g_csv, g_trace>>
    /\ UNCHANGED notGui

\* stop_sweep_scope: self._sweep_abort = True (unified_gui_layout.py:1710-1711).
\* The Stop button may be pressed at any moment of the sweep's loop.
GuiStop ==
    /\ g_pc \in {"check", "in_apply", "dwell", "in_capture", "thd"}
    /\ ~g_abort
    /\ g_abort' = TRUE
    /\ g_hist' = [g_hist EXCEPT !.stopAt = g_pc]
    /\ UNCHANGED <<g_fn, g_in, g_f, g_freqs, g_pc, g_i, g_loc, g_out, g_csv, g_trace>>
    /\ UNCHANGED notGui

GuiNext ==
    \/ GuiParse \/ GuiBuild \/ GuiMemoryError \/ GuiCheck \/ GuiApplyEnd
    \/ GuiCaptureStart \/ GuiCaptureEnd \/ GuiThd \/ GuiSave \/ GuiStop

InitGui == GuiInit /\ SweepIdle /\ ThdInit /\ PlanIdle /\ DspIdle /\ KneeIdle /\ RepIdle /\ CfgIdle /\ DtIdle
SpecGui == InitGui /\ [][GuiNext]_vars

\* The GUI sweep as a thread that keeps running: the list-building loop takes
\* its next step whenever it has one.
SpecGuiFair == InitGui /\ [][GuiNext]_vars /\ WF_vars(GuiBuild)

----------------------------------------------------------------------------
\* Configuration persistence (config.py).
\*
\* A dict is a function from its keys to its values; the settings of the
\* program are strings (thd_tab.py:217-222), which json.dumps and json.loads
\* carry over unchanged.  The file at CONFIG_PATH is absent, holds text that
\* is not JSON, or holds the JSON text of a dict.

CfgKeys == {"fy_protocol", "thd_f0"}
CfgValues == {"a", "b"}
CfgDicts == UNION { [S -> CfgValues] : S \in SUBSET CfgKeys }

\* DEFAULTS (config.py:13-15).
DEFAULTS == [k \in {"fy_protocol"} |-> "FY ASCII 9600"]

\* Mutant: a key that is already stored keeps its value.
DictKeep(d, kv) ==
    [k \in DOMAIN d \cup DOMAIN kv |-> IF k \in DOMAIN d THEN d[k] ELSE kv[k]]

\* dict.update (config.py:51).
DictUpdate(d, kv) ==
    [k \in DOMAIN d \cup DOMAIN kv |-> IF k \in DOMAIN kv THEN kv[k] ELSE d[k]]

\* for k, v in DEFAULTS.items(): _cache.setdefault(k, v) (config.py:33-34).
SetDefaults(d) ==
    [k \in DOMAIN d \cup DOMAIN DEFAULTS |->
        IF k \in DOMAIN d THEN d[k] ELSE DEFAULTS[k]]

\* path.write_text(json.dumps(data, indent=2)) (config.py:46).
JsonDumps(d) == [kind |-> "json", obj |-> d]

\* json.loads(path.read_text()) when the file exists, {} when it does not or
\* when parsing raises (config.py:25-31).
ReadFile(f) == IF f.kind = "json" THEN f.obj ELSE <<>>

\* What load_config returns, and leaves in _cache (config.py:18-35).
Loaded == IF cfg_cache.set THEN cfg_cache.obj ELSE SetDefaults(ReadFile(cfg_file))

\* update_config(**kv) (config.py:49-52): load_config, update, save_config.
update_config(kv) ==
    /\ cfg_cache' = [set |-> TRUE, obj |-> DictUpdate(Loaded, kv)]
    /\ cfg_file' = JsonDumps(DictUpdate(Loaded, kv))
    /\ cfg_written' = DictUpdate(cfg_written, kv)
    /\ cfg_last' = [op |-> "update", arg |-> kv]
    /\ cfg_prev' = cfg_last
    /\ cfg_calls' = IF cfg_calls = "mixed" THEN "mixed" ELSE "updates"
    /\ UNCHANGED cfg_out

----------------------------------------------------------------------------
\* The THD tab: a capture worker thread, the GUI thread, and the queue between.

\* _direct_capture(): a fresh waveform (thd_tab.py:136-148).
DirectCapture == clock + 1

\* queue.Queue.full() (thd_tab.py:155).
QueueFull == Len(thd_capture_queue) >= ThdQueueMaxsize

\* Mutant: the worker does not look whether the queue is full.
WorkerFullNoDiscard ==
    /\ w_pc = "full"
    /\ w_pc' = "put"
    /\ UNCHANGED <<thd_timer, thd_capture_stop, thd_capture_queue, thd_last_wave,
                   w_wave, c_pc, clock, analysed, dropped>>
    /\ UNCHANGED notThd

\* while not gui.thd_capture_stop.is_set() (thd_tab.py:151); the thread ends
\* when the flag is set.
WorkerLoop ==
    /\ w_pc = "loop"
    /\ w_pc' = IF thd_capture_stop THEN "dead" ELSE "capture"
    /\ UNCHANGED <<thd_timer, thd_capture_stop, thd_capture_queue, thd_last_wave,
                   w_wave, c_pc, clock, analysed, dropped>>
    /\ UNCHANGED notThd

\* wave = _direct_capture() (thd_tab.py:152).
WorkerCapture ==
    /\ w_pc = "capture"
    /\ clock < MaxCaptures
    /\ w_wave' = DirectCapture
    /\ clock' = clock + 1
    /\ w_pc' = "full"
    /\ UNCHANGED <<thd_timer, thd_capture_stop, thd_capture_queue, thd_last_wave,
                   c_pc, analysed, dropped>>
    /\ UNCHANGED notThd

\* if gui.thd_capture_queue.full() (thd_tab.py:155).
WorkerFull ==
    /\ w_pc = "full"
    /\ w_pc' = IF QueueFull THEN "get" ELSE "put"
    /\ UNCHANGED <<thd_timer, thd_capture_stop, thd_capture_queue, thd_last_wave,
                   w_wave, c_pc, clock, analysed, dropped>>
    /\ UNCHANGED notThd

\* gui.thd_capture_queue.get_nowait(), queue.Empty swallowed (thd_tab.py:156-159).
WorkerGet ==
    /\ w_pc = "get"
    /\ thd_capture_queue' =
          IF thd_capture_queue = <<>> THEN <<>> ELSE Tail(thd_capture_queue)
    /\ w_pc' = "put"
    /\ UNCHANGED <<thd_timer, thd_capture_stop, thd_last_wave, w_wave, c_pc, clock,
                   analysed, dropped>>
    /\ UNCHANGED notThd

\* gui.thd_capture_queue.put_nowait(wave); queue.Full is swallowed by the outer
\* except and the waveform is lost (thd_tab.py:160-162).
WorkerPut ==
    /\ w_pc = "put"
    /\ IF QueueFull
       THEN dropped' = Append(dropped, w_wave) /\ UNCHANGED thd_capture_queue
       ELSE thd_capture_queue' = Append(thd_capture_queue, w_wave) /\ UNCHANGED dropped
    /\ w_pc' = "sleep"
    /\ UNCHANGED <<thd_timer, thd_capture_stop, thd_last_wave, w_wave, c_pc, clock,
                   analysed>>
    /\ UNCHANGED notThd

\* time.sleep(...) (thd_tab.py:164).
WorkerSleep ==
    /\ w_pc = "sleep"
    /\ w_pc' = "loop"
    /\ UNCHANGED <<thd_timer, thd_capture_stop, thd_capture_queue, thd_last_wave,
                   w_wave, c_pc, clock, analysed, dropped>>
    /\ UNCHANGED notThd

\* gui.thd_last_wave = (t, v); dsp_ext.thd_fft_waveform(t, v, ...) (thd_tab.py:186-197).
Analyse(wave, by) ==
    /\ thd_last_wave' = wave
    /\ analysed' = Append(analysed, <<wave, by>>)

\* _compute_thd up to the waveform: get_nowait from the queue, or, when it is
\* empty, the start of a direct capture (thd_tab.py:182-185).
ComputeThd(by) ==
    IF thd_capture_queue # <<>>
    THEN /\ Analyse(Head(thd_capture_queue), by)
         /\ thd_capture_queue' = Tail(thd_capture_queue)
         /\ c_pc' = "idle"
    ELSE /\ c_pc' = IF by = "tick" THEN "direct_tick" ELSE "direct_export"
         /\ UNCHANGED <<thd_capture_queue, thd_last_wave, analysed>>

\* _tick: the timer fired, or _start called it (thd_tab.py:199-203, 232).
Tick ==
    /\ \/ c_pc = "idle" /\ thd_timer
       \/ c_pc = "tick"
    /\ ComputeThd("tick")
    /\ UNCHANGED <<thd_timer, thd_capture_stop, w_pc, w_wave, clock, dropped>>
    /\ UNCHANGED notThd

\* _export's call of _compute_thd (thd_tab.py:253-258).
Export ==
    /\ c_pc = "idle"
    /\ ComputeThd("export")
    /\ UNCHANGED <<thd_timer, thd_capture_stop, w_pc, w_wave, clock, dropped>>
    /\ UNCHANGED notThd

\* t, v = _direct_capture() in _compute_thd (thd_tab.py:185-197).
ConsumerDirect ==
    /\ c_pc \in {"direct_tick", "direct_export"}
    /\ clock < MaxCaptures
    /\ clock' = clock + 1
    /\ Analyse(DirectCapture, IF c_pc = "direct_tick" THEN "tick" ELSE "export")
    /\ c_pc' = "idle"
    /\ UNCHANGED <<thd_timer, thd_capture_stop, thd_capture_queue, w_pc, w_wave, dropped>>
    /\ UNCHANGED notThd

\* _start (thd_tab.py:205-230): nothing when the timer is active; otherwise
\* the texts of the four fields (thd_tab.py:74, 78, 82, 86) are persisted
\* with update_config and a worker thread is started unless one is alive.  The
\* worker runs from here on, while _start has yet to start the timer.
Start ==
    /\ c_pc = "idle"
    /\ ~thd_timer
    /\ update_config([k \in {"thd_resource", "thd_f0", "thd_nharm", "thd_refresh"} |->
                        CASE k = "thd_resource" -> "USB::INSTR"
                          [] k = "thd_f0" -> "1000"
                          [] k = "thd_nharm" -> "8"
                          [] k = "thd_refresh" -> "1000"])
    /\ IF w_pc \in {"none", "dead"}
       THEN thd_capture_stop' = FALSE /\ w_pc' = "loop"
       ELSE UNCHANGED <<thd_capture_stop, w_pc>>
    /\ c_pc' = "in_start"
    /\ UNCHANGED <<thd_timer, thd_capture_queue, thd_last_wave, w_wave, clock,
                   analysed, dropped>>
    /\ UNCHANGED notThdCfg

\* gui.thd_timer.start(); _tick() (thd_tab.py:231-232).
StartTimer ==
    /\ c_pc = "in_start"
    /\ thd_timer' = TRUE
    /\ c_pc' = "tick"
    /\ UNCHANGED <<thd_capture_stop, thd_capture_queue, thd_last_wave, w_pc, w_wave,
                   clock, analysed, dropped>>
    /\ UNCHANGED notThd

\* _stop (thd_tab.py:234-248): the timer stops, the stop flag is set; the join
\* gives up after 0.5 s, so the worker may still be alive afterwards.
Stop ==
    /\ c_pc = "idle"
    /\ thd_timer \/ ~thd_capture_stop
    /\ thd_timer' = FALSE
    /\ thd_capture_stop' = TRUE
    /\ UNCHANGED <<thd_capture_queue, thd_last_wave, w_pc, w_wave, c_pc, clock,
                   analysed, dropped>>
    /\ UNCHANGED notThd

WorkerNext ==
    \/ WorkerLoop \/ WorkerCapture \/ WorkerFull \/ WorkerGet \/ WorkerPut
    \/ WorkerSleep

\* _show_spectrum (thd_tab.py:284-323): nothing before the first waveform;
\* otherwise the spectrum of gui.thd_last_wave is plotted and saved in the
\* directory that cfg = load_config() names (config.py:18-35).
ShowSpectrum ==
    /\ c_pc = "idle"
    /\ thd_last_wave # 0
    /\ cfg_cache' = [set |-> TRUE, obj |-> Loaded]
    /\ cfg_out' = Loaded
    /\ cfg_last' = [op |-> "load", arg |-> <<>>]
    /\ cfg_prev' = cfg_last
    /\ UNCHANGED <<cfg_file, cfg_written, cfg_calls>>
    /\ UNCHANGED thdVars
    /\ UNCHANGED notThdCfg

ThdNext ==
    \/ WorkerNext \/ Tick \/ Export \/ ConsumerDirect \/ Start \/ StartTimer \/ Stop
    \/ ShowSpectrum

\* The configuration as build_thd_tab leaves it: _cfg = load_config() or {}
\* with no readable file at CONFIG_PATH, so that the fields keep their texts
\* (thd_tab.py:122-134; config.py:18-35).
ThdCfgInit ==
    /\ cfg_file \in {[kind |-> "absent", obj |-> <<>>], [kind |-> "corrupt", obj |-> <<>>]}
    /\ cfg_cache = [set |-> TRUE, obj |-> SetDefaults(ReadFile(cfg_file))]
    /\ cfg_out = SetDefaults(ReadFile(cfg_file))
    /\ cfg_written = <<>>
    /\ cfg_calls = "none"
    /\ cfg_last = [op |-> "load", arg |-> <<>>]
    /\ cfg_prev = [op |-> "none", arg |-> <<>>]

InitThd == ThdInit /\ ThdCfgInit /\ SweepIdle /\ GuiIdle /\ PlanIdle /\ DspIdle /\ KneeIdle /\ RepIdle /\ DtIdle
SpecThd == InitThd /\ [][ThdNext]_vars

----------------------------------------------------------------------------
\* The frequency plan generator, build_freq_points.
\*
\* start and stop are whole numbers of ticks of 1e-7 Hz, so that they have a
\* seventh decimal for round(v, 6) to remove; the values of the returned list
\* are whole numbers of 1e-6 Hz.  The interpolation is computed exactly.  Where
\* the exact value lies halfway between two multiples of 1e-6, the float the
\* code rounds is a hair above or below it and round() goes either way: both
\* outcomes are kept.

RECURSIVE Pow(_, _)
Pow(b, e) == IF e = 0 THEN 1 ELSE b * Pow(b, e - 1)

\* round(v, 6) for v = n/d ticks (d > 0): the possible results, in 1e-6 Hz.
Round6(n, d) ==
    LET q == n \div (10 * d)
        r == n % (10 * d)
    IN  IF 2 * r < 10 * d THEN {q}
        ELSE IF 2 * r > 10 * d THEN {q + 1}
        ELSE {q, q + 1}

\* vals[k] of linear mode, k = 0..points-1: start + step * k with
\* step = (stop - start) / (points - 1), then round(v, 6)
\* (automation.py:31-34).
LinearRound(start, stop, points, k) ==
    Round6(start * (points - 1) + (stop - start) * k, points - 1)

\* vals[k] of log mode: exp(ln_s + (ln_e - ln_s) * k / (points - 1)), that is
\* the (points-1)-th root of start^(points-1-k) * stop^k, then round(v, 6): the
\* m with 10m - 5 <= v <= 10m + 5 ticks (automation.py:27-29, 34).
LogRound(start, stop, points, k) ==
    LET e == points - 1
        target == Pow(start, e - k) * Pow(stop, k)
        top == (IF start > stop THEN start ELSE stop) \div 10 + 1
    IN  { m \in 0..top :
            /\ (10 * m - 5 <= 0 \/ Pow(10 * m - 5, e) <= target)
            /\ target <= Pow(10 * m + 5, e) }

\* mode.lower().startswith("log") (automation.py:24).  A string is the
\* sequence of its characters.  The lower-cased mode begins with "log" exactly
\* when the mode has three characters or more and its first three are l, o, g
\* in either case: str.lower() turns L, O, G into l, o, g, leaves l, o, g as
\* they are, and turns no other character into text that holds an l, o or g.
IsLog(mode) ==
    /\ Len(mode) >= 3
    /\ mode[1] \in {"l", "L"}
    /\ mode[2] \in {"o", "O"}
    /\ mode[3] \in {"g", "G"}

\* The rounded list out before its endpoints are fixed (automation.py:34):
\* every list the rounding can produce.
RoundedLists(start, stop, points, mode) ==
    LET cand(k) == IF IsLog(mode) THEN LogRound(start, stop, points, k)
                   ELSE LinearRound(start, stop, points, k)
        all == UNION {cand(k) : k \in 0..(points - 1)}
    IN  { out \in [1..points -> all] : \A k \in 1..points : out[k] \in cand(k - 1) }

\* Mutant: the last element is overwritten with the rounded start.
FixEndpointsBothStart(out, r_start, r_stop) ==
    [out EXCEPT ![1] = r_start, ![Len(out)] = r_start]

\* out[0] = round(start, 6); out[-1] = round(stop, 6) (automation.py:35-36).
FixEndpoints(out, r_start, r_stop) ==
    [out EXCEPT ![1] = r_start, ![Len(out)] = r_stop]

\* Mutant: log mode checks the start only.
PlanRaisesStartOnly(start, stop, points, mode) ==
    \/ points <= 1
    \/ IsLog(mode) /\ start <= 0

\* The guards of build_freq_points (automation.py:22-26).
PlanRaises(start, stop, points, mode) ==
    \/ points <= 1
    \/ IsLog(mode) /\ (start <= 0 \/ stop <= 0)

\* The arguments of a call of build_freq_points; the modes are "linear",
\* "log", "LOG", "lo" and "Logarithmic".
PlanInit ==
    /\ p_in \in [start : (-3)..MaxTick, stop : (-3)..MaxTick, points : 0..MaxPoints,
                  mode : {<<"l", "i", "n", "e", "a", "r">>, <<"l", "o", "g">>,
                          <<"L", "O", "G">>, <<"l", "o">>,
                          <<"L", "o", "g", "a", "r", "i", "t", "h", "m", "i", "c">>}]
    /\ p_pc = "call"
    /\ p_out = <<>>

\* build_freq_points raises ValueError (automation.py:22-26).
PlanRaise ==
    /\ p_pc = "call"
    /\ PlanRaises(p_in.start, p_in.stop, p_in.points, p_in.mode)
    /\ p_pc' = "raised"
    /\ UNCHANGED <<p_in, p_out>>
    /\ UNCHANGED notPlan

\* build_freq_points returns (automation.py:27-37).  round(start, 6) and
\* round(stop, 6) are recorded beside the list; equal arguments round alike.
PlanReturn ==
    /\ p_pc = "call"
    /\ ~PlanRaises(p_in.start, p_in.stop, p_in.points, p_in.mode)
    /\ \E out \in RoundedLists(p_in.start, p_in.stop, p_in.points, p_in.mode),
          r_start \in Round6(p_in.start, 1), r_stop \in Round6(p_in.stop, 1) :
            /\ p_in.start = p_in.stop => r_start = r_stop
            /\ p_out' = [vals |-> FixEndpoints(out, r_start, r_stop),
                         round_start |-> r_start, round_stop |-> r_stop]
    /\ p_pc' = "returned"
    /\ UNCHANGED p_in
    /\ UNCHANGED notPlan

PlanNext == PlanRaise \/ PlanReturn

InitPlan == PlanInit /\ SweepIdle /\ GuiIdle /\ ThdInit /\ DspIdle /\ KneeIdle /\ RepIdle /\ CfgIdle /\ DtIdle
SpecPlan == InitPlan /\ [][PlanNext]_vars

----------------------------------------------------------------------------
\* The spectral analysers: thd_fft, snr_db, noise_floor_db (dsp.py),
\* harmonic_table, thd_fft_waveform (dsp_ext.py).
\*
\* A waveform is given by its number of samples n and by the magnitude
\* spectrum mag = |rfft(v * w)| that numpy computes from it: a sequence of
\* n // 2 + 1 magnitudes, bin k at position k + 1.  Bin k has the frequency
\* k * df, df = 1 / (n * dt) being the bin spacing in Hz.  f0 is the hint
\* (NoneVal: not given), nharm the harmonic count and nharm_float tells that
\* the count is handed over as a Python float (10.0) rather than an int.
\*
\* A magnitude is a whole number or NaN.  Every bin of rfft is a sum over all
\* the samples, so that one NaN sample makes every magnitude NaN.  A
\* comparison with NaN is false and arithmetic on NaN gives NaN.
\*
\* Square roots and logarithms are not computed: a THD ratio sqrt(s2) / fund
\* is represented by the fraction s2 / fund^2 in lowest terms, a level
\* 10 * log10(p / q) dB by the fraction p / q in lowest terms, so that two
\* results are equal as numbers exactly when their representations are equal.

\* Fewest samples the analysers accept (dsp.py:33, 141, 229; dsp_ext.py:34).
MinSamples == 16

MaxMag == 2       \* largest magnitude of a spectrum bin
MaxPeaks == 2     \* largest number of non-zero bins of a spectrum

\* Waveform lengths: empty, one sample, one sample short, just long enough.
SampleCounts == {0, 1, 15, 16}

\* mag.size for a waveform of n samples: np.fft.rfft returns n // 2 + 1 bins
\* (dsp.py:47); an empty waveform has no spectrum.
BinCount(n) == IF n = 0 THEN 0 ELSE n \div 2 + 1

\* The spectra of the model: those of the waveforms of finite samples with
\* up to MaxPeaks lines, and the one of the waveforms with a NaN sample.
Spectra(n) ==
    UNION { { [k \in 1..BinCount(n) |-> IF k \in S THEN g[k] ELSE 0] :
                g \in [S -> 1..MaxMag] } :
            S \in {T \in SUBSET (1..BinCount(n)) : Cardinality(T) <= MaxPeaks} }
      \cup { [k \in 1..BinCount(n) |-> NaN] }

\* Hints: none, zero, halfway between bins 0 and 1, on bin 2, halfway between
\* bins 3 and 4, above the top frequency (with df = 2).
F0s == {NoneVal, 0, 1, 4, 7, 100}
NHarms == {1, 2, 10}

Abs(x) == IF x < 0 THEN -x ELSE x

RECURSIVE GCD(_, _)
GCD(a, b) == IF b = 0 THEN a ELSE GCD(b, a % b)

\* f[k] of f = np.fft.rfftfreq(n, d=dt) (dsp.py:48).
BinFreq(in, k) == k * in.df
\* mag[k] (dsp.py:49).
Mag(in, k) == in.mag[k + 1]
\* Index of the last bin: f[-1] is BinFreq(in, Top(in)).
Top(in) == Len(in.mag) - 1

\* Mutant: the maximum is searched over all bins, bin 0 included.
ArgMaxAll(in) ==
    IF \E j \in 0..Top(in) : Mag(in, j) = NaN
    THEN CHOOSE k \in 0..Top(in) :
           Mag(in, k) = NaN /\ \A j \in 0..(k - 1) : Mag(in, j) # NaN
    ELSE CHOOSE k \in 0..Top(in) :
           /\ \A j \in 0..Top(in) : Mag(in, j) <= Mag(in, k)
           /\ \A j \in 0..(k - 1) : Mag(in, j) < Mag(in, k)

\* int(np.argmax(mag[1:])) + 1: the first NaN bin among bins 1..last when
\* there is one, else the first bin of largest magnitude among them
\* (dsp.py:51).
ArgMaxTail(in) ==
    IF \E j \in 1..Top(in) : Mag(in, j) = NaN
    THEN CHOOSE k \in 1..Top(in) :
           Mag(in, k) = NaN /\ \A j \in 1..(k - 1) : Mag(in, j) # NaN
    ELSE CHOOSE k \in 1..Top(in) :
           /\ \A j \in 1..Top(in) : Mag(in, j) <= Mag(in, k)
           /\ \A j \in 1..(k - 1) : Mag(in, j) < Mag(in, k)

\* int(np.argmin(np.abs(f - target))): the first bin nearest to target
\* (dsp.py:53, 63).
ArgMinDist(in, target) ==
    CHOOSE k \in 0..Top(in) :
      /\ \A j \in 0..Top(in) :
           Abs(BinFreq(in, k) - target) <= Abs(BinFreq(in, j) - target)
      /\ \A j \in 0..(k - 1) :
           Abs(BinFreq(in, k) - target) < Abs(BinFreq(in, j) - target)

\* The fundamental bin idx (dsp.py:50-55, 162-167, 250-255; dsp_ext.py:50-55).
FundIdx(in) ==
    IF in.f0 = NoneVal \/ in.f0 <= 0
    THEN ArgMaxTail(in)
    ELSE LET idx == ArgMinDist(in, in.f0)
         IN  IF idx <= 0 THEN ArgMaxTail(in) ELSE idx

\* max(2, int(nharm)) (dsp.py:60).
MaxHarm(nharm) == IF nharm > 2 THEN nharm ELSE 2

\* Mutant: the loop does not stop at the top frequency; a target above it
\* contributes the bin nearest to it, the last one.
RECURSIVE HarmonicBinsNoBreak(_, _, _)
HarmonicBinsNoBreak(in, idx, k) ==
    IF k > MaxHarm(in.nharm) THEN <<>>
    ELSE LET hk == ArgMinDist(in, k * BinFreq(in, idx))
         IN  <<hk>> \o HarmonicBinsNoBreak(in, idx, k + 1)

\* The loop of thd_fft over k = k, ..., max(2, nharm): the bins hk whose
\* squared magnitude is added to s2, in the order of the loop (dsp.py:59-67).
RECURSIVE HarmonicBins(_, _, _)
HarmonicBins(in, idx, k) ==
    IF k > MaxHarm(in.nharm) THEN <<>>
    ELSE LET target == k * BinFreq(in, idx)
         IN  IF target > BinFreq(in, Top(in)) THEN <<>>
             ELSE LET hk == ArgMinDist(in, target)
                  IN  IF hk <= 0 \/ hk >= Len(in.mag)
                      THEN HarmonicBins(in, idx, k + 1)
                      ELSE <<hk>> \o HarmonicBins(in, idx, k + 1)

\* s2 after the loop: the sum of mag[hk]**2 (dsp.py:58, 67).
RECURSIVE SumSq(_, _)
SumSq(in, bins) ==
    IF bins = <<>> THEN 0
    ELSE LET m == Mag(in, Head(bins))
             rest == SumSq(in, Tail(bins))
         IN  IF m = NaN \/ rest = NaN THEN NaN ELSE m * m + rest

\* np.sqrt(s2) / fund_amp for a fund_amp that is not <= 0 (dsp.py:68).
Ratio(s2, fund_amp) ==
    IF s2 = NaN \/ fund_amp = NaN THEN [nan |-> TRUE, num |-> 0, den |-> 1]
    ELSE LET g == GCD(s2, fund_amp * fund_amp)
         IN  [nan |-> FALSE, num |-> s2 \div g,
              den |-> (fund_amp * fund_amp) \div g]
NaNRatio == [nan |-> TRUE, num |-> 0, den |-> 1]

\* Mutant: waveforms of two samples and more are analysed.
thd_fft_short(in) ==
    IF in.n < 2 THEN <<NaNRatio, NaN, NaN>>
    ELSE LET idx == FundIdx(in)
             fund_amp == Mag(in, idx)
         IN  IF fund_amp # NaN /\ fund_amp <= 0
             THEN <<NaNRatio, BinFreq(in, idx), 0>>
             ELSE <<Ratio(SumSq(in, HarmonicBins(in, idx, 2)), fund_amp),
                    BinFreq(in, idx), fund_amp>>

\* thd_fft(t, v, f0, nharm, window) (dsp.py:30-69).
thd_fft(in) ==
    IF in.n < MinSamples THEN <<NaNRatio, NaN, NaN>>
    ELSE LET idx == FundIdx(in)
             fund_amp == Mag(in, idx)
         IN  IF fund_amp # NaN /\ fund_amp <= 0
             THEN <<NaNRatio, BinFreq(in, idx), 0>>
             ELSE <<Ratio(SumSq(in, HarmonicBins(in, idx, 2)), fund_amp),
                    BinFreq(in, idx), fund_amp>>

\* The loop of harmonic_table over k = k, ..., max(2, nharm): one entry per
\* harmonic, until the target exceeds f[-1] (dsp_ext.py:57-63).
RECURSIVE TableRows(_, _, _)
TableRows(in, base_f, k) ==
    IF k > MaxHarm(in.nharm) THEN <<>>
    ELSE LET target == k * base_f
         IN  IF target > BinFreq(in, Top(in)) THEN <<>>
             ELSE LET hk == ArgMinDist(in, target)
                  IN  <<[k |-> k, freq_hz |-> BinFreq(in, hk), mag |-> Mag(in, hk)]>>
                        \o TableRows(in, base_f, k + 1)

\* range(1, max(2, nharm) + 1) raises TypeError when its bound is a float,
\* and max(2, nharm) is nharm itself when nharm is above 2 (dsp_ext.py:58);
\* thd_fft, snr_db and noise_floor_db convert with int(nharm) (dsp.py:60).
TableRaises(in) == in.n >= MinSamples /\ in.nharm_float /\ in.nharm > 2

\* harmonic_table(t, v, f0, nharm, window) (dsp_ext.py:25-64).
harmonic_table(in) ==
    IF in.n < MinSamples THEN <<>>
    ELSE TableRows(in, BinFreq(in, FundIdx(in)), 1)

\* s2 after the loop over the entries: the sum of entry["mag"]**2
\* (dsp_ext.py:78-80).
RECURSIVE SumMagSq(_)
SumMagSq(entries) ==
    IF entries = <<>> THEN 0
    ELSE LET m == Head(entries).mag
             rest == SumMagSq(Tail(entries))
         IN  IF m = NaN \/ rest = NaN THEN NaN ELSE m * m + rest

\* thd_fft_waveform(t, v, f0, nharm, window) (dsp_ext.py:67-82).  The test
\* s2 > 0 fails for a NaN sum as it does for 0, and the ratio is then 0.0.
thd_fft_waveform(in) ==
    LET table == harmonic_table(in)
    IN  IF table = <<>> THEN <<NaNRatio, NaN, NaN>>
        ELSE LET fund == table[1]
                 fund_amp == fund.mag
             IN  IF fund_amp # NaN /\ fund_amp <= 0
                 THEN <<NaNRatio, fund.freq_hz, 0>>
                 ELSE LET s2 == SumMagSq(Tail(table))
                      IN  <<IF s2 # NaN /\ s2 > 0 THEN Ratio(s2, fund_amp)
                            ELSE [nan |-> FALSE, num |-> 0, den |-> 1],
                            fund.freq_hz, fund_amp>>

\* Levels in dB: float('nan'), float('inf'), -float('inf'), and
\* 10 * log10(p / q) for p, q > 0.
NaNLevel == [kind |-> "nan", num |-> 0, den |-> 1]
PosInf == [kind |-> "inf", num |-> 0, den |-> 1]
NegInf == [kind |-> "-inf", num |-> 0, den |-> 1]
Db10(p, q) ==
    IF p = NaN \/ q = NaN THEN [kind |-> "nan", num |-> 0, den |-> 1]
    ELSE LET g == GCD(p, q)
         IN  [kind |-> "db", num |-> p \div g, den |-> q \div g]

\* noise_mask before the harmonics are excluded: every bin but bin 0 and the
\* fundamental (dsp.py:174-176, 258-260).
BaseMask(in, idx) ==
    [[k \in 0..Top(in) |-> TRUE] EXCEPT ![0] = FALSE, ![idx] = FALSE]

\* The harmonics loop of snr_db (dsp.py:179-185).
RECURSIVE SnrMask(_, _, _, _)
SnrMask(in, idx, k, noise_mask) ==
    IF k > MaxHarm(in.nharm) THEN noise_mask
    ELSE LET target == k * BinFreq(in, idx)
         IN  IF target > BinFreq(in, Top(in)) THEN noise_mask
             ELSE LET hk == ArgMinDist(in, target)
                  IN  SnrMask(in, idx, k + 1,
                              IF 0 < hk /\ hk < Len(in.mag)
                              THEN [noise_mask EXCEPT ![hk] = FALSE]
                              ELSE noise_mask)

\* The harmonics loop of noise_floor_db (dsp.py:263-269).
RECURSIVE FloorMask(_, _, _, _)
FloorMask(in, idx, k, noise_mask) ==
    IF k > MaxHarm(in.nharm) THEN noise_mask
    ELSE LET target == k * BinFreq(in, idx)
         IN  IF target > BinFreq(in, Top(in)) THEN noise_mask
             ELSE LET hk == ArgMinDist(in, target)
                  IN  FloorMask(in, idx, k + 1,
                                IF 0 < hk /\ hk < Len(in.mag)
                                THEN [noise_mask EXCEPT ![hk] = FALSE]
                                ELSE noise_mask)

\* The bins of noise_bins = mag[noise_mask] (dsp.py:188, 272).
MaskBins(in, noise_mask) == {k \in 0..Top(in) : noise_mask[k]}

\* The bins of noise_bins in snr_db (dsp.py:173-188).
SnrNoiseBins(in, idx) == MaskBins(in, SnrMask(in, idx, 2, BaseMask(in, idx)))

\* Mutant: the harmonics are left in the noise.
FloorNoiseBinsKeepHarmonics(in, idx) == MaskBins(in, BaseMask(in, idx))

\* The bins of noise_bins in noise_floor_db (dsp.py:257-272).
FloorNoiseBins(in, idx) == MaskBins(in, FloorMask(in, idx, 2, BaseMask(in, idx)))

\* np.sum(noise_bins ** 2), the numerator of np.mean (dsp.py:192, 276).
RECURSIVE SumSqOver(_, _)
SumSqOver(in, bins) ==
    IF bins = {} THEN 0
    ELSE LET k == CHOOSE b \in bins : TRUE
             rest == SumSqOver(in, bins \ {k})
         IN  IF Mag(in, k) = NaN \/ rest = NaN THEN NaN
             ELSE Mag(in, k) * Mag(in, k) + rest

\* Mutant: a noise RMS of zero is reported as NaN.
snr_db_nan(in) ==
    IF in.n < MinSamples THEN NaNLevel
    ELSE LET idx == FundIdx(in)
             fund_amp == Mag(in, idx)
             bins == SnrNoiseBins(in, idx)
             s == SumSqOver(in, bins)
         IN  IF fund_amp # NaN /\ fund_amp <= 0 THEN NaNLevel
             ELSE IF bins = {} THEN NaNLevel
             ELSE IF s # NaN /\ s <= 0 THEN NaNLevel
             ELSE Db10(IF fund_amp = NaN THEN NaN
                       ELSE fund_amp * fund_amp * Cardinality(bins), s)

\* snr_db(t, v, f0, nharm, window) (dsp.py:111-197):
\* 20 * log10(fund_amp / sqrt(mean(noise_bins**2))).
snr_db(in) ==
    IF in.n < MinSamples THEN NaNLevel
    ELSE LET idx == FundIdx(in)
             fund_amp == Mag(in, idx)
             bins == SnrNoiseBins(in, idx)
             s == SumSqOver(in, bins)
         IN  IF fund_amp # NaN /\ fund_amp <= 0 THEN NaNLevel
             ELSE IF bins = {} THEN NaNLevel
             ELSE IF s # NaN /\ s <= 0 THEN PosInf
             ELSE Db10(IF fund_amp = NaN THEN NaN
                       ELSE fund_amp * fund_amp * Cardinality(bins), s)

\* Mutant: the noise level is reported relative to the fundamental.
noise_floor_db_rel(in) ==
    IF in.n < MinSamples THEN NaNLevel
    ELSE LET idx == FundIdx(in)
             bins == FloorNoiseBins(in, idx)
             s == SumSqOver(in, bins)
         IN  IF bins = {} THEN NaNLevel
             ELSE IF s # NaN /\ s <= 0 THEN NegInf
             ELSE Db10(s, Cardinality(bins) * (1 + Mag(in, idx) * Mag(in, idx)))

\* noise_floor_db(t, v, f0, nharm, window) (dsp.py:200-281):
\* 20 * log10(sqrt(mean(noise_bins**2))).
noise_floor_db(in) ==
    IF in.n < MinSamples THEN NaNLevel
    ELSE LET idx == FundIdx(in)
             bins == FloorNoiseBins(in, idx)
             s == SumSqOver(in, bins)
         IN  IF bins = {} THEN NaNLevel
             ELSE IF s # NaN /\ s <= 0 THEN NegInf
             ELSE Db10(s, Cardinality(bins))

\* The locals a call leaves behind: idx, and the bins of noise_mask when the
\* call computes it.
NoLocals == [idx |-> NoneVal, masked |-> FALSE, noise |-> {}]
CallLocals(name, in) ==
    IF in.n < MinSamples THEN NoLocals
    ELSE LET idx == FundIdx(in)
         IN  IF name = "snr_db" /\ ~(Mag(in, idx) # NaN /\ Mag(in, idx) <= 0)
             THEN [idx |-> idx, masked |-> TRUE, noise |-> SnrNoiseBins(in, idx)]
             ELSE IF name = "noise_floor_db"
             THEN [idx |-> idx, masked |-> TRUE, noise |-> FloorNoiseBins(in, idx)]
             ELSE [idx |-> idx, masked |-> FALSE, noise |-> {}]

\* np.fft.rfft of an empty array and np.argmax of the empty slice mag[1:]
\* raise ValueError: the body after the length check needs two bins
\* (dsp.py:47, 51).
SpectrumRaises(in) == in.n >= MinSamples /\ Len(in.mag) < 2

\* The arguments of a call of an analyser.
DspInit ==
    /\ d_in \in UNION { { [n |-> n, mag |-> m, df |-> 2, f0 |-> h, nharm |-> c,
                             nharm_float |-> fl] :
                            m \in Spectra(n), h \in F0s, c \in NHarms,
                            fl \in BOOLEAN } :
                        n \in SampleCounts }
    /\ d_fn = "none"
    /\ d_pc = "call"
    /\ d_out = <<>>
    /\ d_loc = <<>>

\* The effect of a call that returns value.
Returns(name, value) ==
    /\ d_fn' = name
    /\ d_out' = value
    /\ d_loc' = CallLocals(name, d_in)
    /\ d_pc' = "returned"
    /\ UNCHANGED d_in

\* A call of thd_fft (dsp.py:30-69).
CallThdFft ==
    /\ d_pc = "call"
    /\ ~SpectrumRaises(d_in)
    /\ Returns("thd_fft", thd_fft(d_in))
    /\ UNCHANGED notDsp

\* A call of harmonic_table (dsp_ext.py:25-64).
CallHarmonicTable ==
    /\ d_pc = "call"
    /\ ~SpectrumRaises(d_in)
    /\ ~TableRaises(d_in)
    /\ Returns("harmonic_table", harmonic_table(d_in))
    /\ UNCHANGED notDsp

\* A call of thd_fft_waveform (dsp_ext.py:67-82).
CallThdFftWaveform ==
    /\ d_pc = "call"
    /\ ~SpectrumRaises(d_in)
    /\ ~TableRaises(d_in)
    /\ Returns("thd_fft_waveform", thd_fft_waveform(d_in))
    /\ UNCHANGED notDsp

\* A call of snr_db (dsp.py:111-197).
CallSnrDb ==
    /\ d_pc = "call"
    /\ ~SpectrumRaises(d_in)
    /\ Returns("snr_db", snr_db(d_in))
    /\ UNCHANGED notDsp

\* A call of noise_floor_db (dsp.py:200-281).
CallNoiseFloorDb ==
    /\ d_pc = "call"
    /\ ~SpectrumRaises(d_in)
    /\ Returns("noise_floor_db", noise_floor_db(d_in))
    /\ UNCHANGED notDsp

\* harmonic_table raises the TypeError of range() (dsp_ext.py:58).
RaiseHarmonicTable ==
    /\ d_pc = "call"
    /\ ~SpectrumRaises(d_in)
    /\ TableRaises(d_in)
    /\ d_fn' = "harmonic_table"
    /\ d_pc' = "raised"
    /\ UNCHANGED <<d_in, d_out, d_loc>>
    /\ UNCHANGED notDsp

\* thd_fft_waveform does not catch what harmonic_table raises
\* (dsp_ext.py:71).
RaiseThdFftWaveform ==
    /\ d_pc = "call"
    /\ ~SpectrumRaises(d_in)
    /\ TableRaises(d_in)
    /\ d_fn' = "thd_fft_waveform"
    /\ d_pc' = "raised"
    /\ UNCHANGED <<d_in, d_out, d_loc>>
    /\ UNCHANGED notDsp

DspNext ==
    \/ CallThdFft \/ CallHarmonicTable \/ CallThdFftWaveform
    \/ CallSnrDb \/ CallNoiseFloorDb
    \/ RaiseHarmonicTable \/ RaiseThdFftWaveform

InitDsp == DspInit /\ SweepIdle /\ GuiIdle /\ ThdInit /\ PlanIdle /\ KneeIdle /\ RepIdle /\ CfgIdle /\ DtIdle
SpecDsp == InitDsp /\ [][DspNext]_vars

----------------------------------------------------------------------------
\* The knee detector, find_knees (dsp.py:71-108).
\*
\* An amplitude is a power of ten 10^e, or zero, NaN or +infinity, so that its
\* level 20 * log10 is a whole number of dB.  Frequencies, ref_hz and drop_db
\* are whole numbers.  A knee is a fraction in lowest terms, or NaN.
\* The amplitudes 1e-18 and 1e-19 sit on and below the floor of dsp.py:84.  A
\* negative amplitude is not among them: it is not positive (dsp.py:79), it is
\* raised to the floor (dsp.py:84) and it is below every positive amplitude,
\* all as zero is.

MaxKnee == 4      \* longest response curve handed to find_knees

Amp(e) == [kind |-> "pos", e |-> e]
AmpZero == [kind |-> "zero", e |-> 0]
AmpNaN == [kind |-> "nan", e |-> 0]
AmpInf == [kind |-> "inf", e |-> 0]
Amps == {Amp(-19), Amp(-18), Amp(-1), Amp(0), Amp(1), AmpZero, AmpNaN, AmpInf}

\* Levels in dB: finite, NaN, +infinity.
DbFin(x) == [kind |-> "fin", v |-> x]
DbNaN == [kind |-> "nan", v |-> 0]
DbInf == [kind |-> "inf", v |-> 0]

\* 20.0 * np.log10(np.maximum(a, 1e-18)) of one amplitude, an element of adB
\* (dsp.py:84): every amplitude below 1e-18, zero included, is raised to
\* 1e-18, that is -360 dB; np.maximum hands a NaN on.
Log20(a) ==
    CASE a.kind = "pos" -> DbFin(IF a.e < -18 THEN -360 ELSE 20 * a.e)
      [] a.kind = "zero" -> DbFin(-360)
      [] a.kind = "inf" -> DbInf
      [] OTHER -> DbNaN

\* a > 0 (dsp.py:79).
AmpPositive(a) == a.kind \in {"pos", "inf"}
\* np.isfinite (dsp.py:80).
AmpFinite(a) == a.kind \in {"pos", "zero"}

\* a < b for two amplitudes that are not NaN.
AmpLess(a, b) ==
    CASE b.kind = "inf" -> a.kind # "inf"
      [] b.kind = "pos" -> a.kind = "zero" \/ (a.kind = "pos" /\ a.e < b.e)
      [] OTHER -> FALSE

\* int(np.argmax(a)), 0-based: the first NaN when there is one, else the first
\* largest amplitude (dsp.py:77).
KneeArgMax(a) ==
    IF \E j \in 1..Len(a) : a[j].kind = "nan"
    THEN (CHOOSE j \in 1..Len(a) :
            a[j].kind = "nan" /\ \A h \in 1..(j - 1) : a[h].kind # "nan") - 1
    ELSE (CHOOSE j \in 1..Len(a) :
            /\ \A h \in 1..Len(a) : ~AmpLess(a[j], a[h])
            /\ \A h \in 1..(j - 1) : AmpLess(a[h], a[j])) - 1

\* int(np.argmin(np.abs(f - float(ref_hz)))), 0-based (dsp.py:75).
KneeArgMin(f, ref_hz) ==
    (CHOOSE j \in 1..Len(f) :
       /\ \A h \in 1..Len(f) : Abs(f[j] - ref_hz) <= Abs(f[h] - ref_hz)
       /\ \A h \in 1..(j - 1) : Abs(f[j] - ref_hz) < Abs(f[h] - ref_hz)) - 1

\* The reference index idx (dsp.py:74-77).
RefIdx(in) ==
    IF in.ref_mode = "freq" THEN KneeArgMin(in.freqs, in.ref_hz)
    ELSE KneeArgMax(in.amps)

\* prev_db >= target_db and cur_db <= target_db, or the other way round
\* (dsp.py:89, 100); a comparison with NaN is false.
DbGe(x, t) == x.kind = "inf" \/ (x.kind = "fin" /\ x.v >= t)
DbLe(x, t) == x.kind = "fin" /\ x.v <= t
Straddles(prev_db, cur_db, t) ==
    \/ DbGe(prev_db, t) /\ DbLe(cur_db, t)
    \/ DbLe(prev_db, t) /\ DbGe(cur_db, t)

NaNKnee == [nan |-> TRUE, num |-> 0, den |-> 1]
\* The fraction num / den, den # 0, in lowest terms with a positive
\* denominator.
Frac(num, den) ==
    LET g == GCD(Abs(num), Abs(den))
        sg == IF den < 0 THEN -1 ELSE 1
    IN  [nan |-> FALSE, num |-> sg * (num \div g), den |-> sg * (den \div g)]

\* Mutant: the interpolation starts from the far end of the pair.
CrossingFromCur(prev_f, cur_f, prev_db, cur_db, t) ==
    IF cur_db = prev_db THEN Frac(cur_f, 1)
    ELSE IF prev_db.kind = "inf" THEN NaNKnee
    ELSE IF cur_db.kind = "inf" THEN Frac(cur_f, 1)
    ELSE Frac(cur_f * (cur_db.v - prev_db.v) + (t - prev_db.v) * (cur_f - prev_f),
              cur_db.v - prev_db.v)

\* The knee of a straddling pair (dsp.py:90-94, 101-105):
\* prev_f + frac * (cur_f - prev_f) with
\* frac = (target_db - prev_db) / (cur_db - prev_db), or cur_f when the two
\* levels are equal.  An infinite cur_db makes frac 0; an infinite prev_db
\* makes it inf / inf = NaN.
Crossing(prev_f, cur_f, prev_db, cur_db, t) ==
    IF cur_db = prev_db THEN Frac(cur_f, 1)
    ELSE IF prev_db.kind = "inf" THEN NaNKnee
    ELSE IF cur_db.kind = "inf" THEN Frac(prev_f, 1)
    ELSE Frac(prev_f * (cur_db.v - prev_db.v) + (t - prev_db.v) * (cur_f - prev_f),
              cur_db.v - prev_db.v)

\* Mutant: a side without a crossing falls back to the frequency at which
\* its search ended.
RECURSIVE KneeScanFallback(_, _, _, _)
KneeScanFallback(in, j, last, t) ==
    IF j > last THEN Frac(in.freqs[last + 1], 1)
    ELSE LET prev_db == Log20(in.amps[j])
             cur_db == Log20(in.amps[j + 1])
         IN  IF Straddles(prev_db, cur_db, t)
             THEN Crossing(in.freqs[j], in.freqs[j + 1], prev_db, cur_db, t)
             ELSE KneeScanFallback(in, j + 1, last, t)

\* One search loop of find_knees (dsp.py:86-96, 97-107): the 0-based index i
\* runs from j to last, the pair being (i - 1, i); the first straddling pair
\* gives the knee and ends the loop; NaN when the loop ends without one.
RECURSIVE KneeScan(_, _, _, _)
KneeScan(in, j, last, t) ==
    IF j > last THEN NaNKnee
    ELSE LET prev_db == Log20(in.amps[j])
             cur_db == Log20(in.amps[j + 1])
         IN  IF Straddles(prev_db, cur_db, t)
             THEN Crossing(in.freqs[j], in.freqs[j + 1], prev_db, cur_db, t)
             ELSE KneeScan(in, j + 1, last, t)

NaNKnees == <<NaNKnee, NaNKnee, AmpNaN, DbNaN>>

\* Mutant: a reference amplitude that is not finite is accepted.
KneeRefusesZeroOnly(in) ==
    \/ Len(in.freqs) # Len(in.amps)
    \/ Len(in.freqs) < 2
    \/ in.amps[RefIdx(in) + 1].kind \in {"zero", "nan"}

\* The guards of find_knees (dsp.py:72-81).
KneeRefuses(in) ==
    \/ Len(in.freqs) # Len(in.amps)
    \/ Len(in.freqs) < 2
    \/ LET ref_amp == IF AmpPositive(in.amps[RefIdx(in) + 1])
                      THEN in.amps[RefIdx(in) + 1] ELSE AmpNaN
       IN  ~AmpFinite(ref_amp) \/ ~AmpPositive(ref_amp)

\* find_knees(freqs, amps, ref_mode, ref_hz, drop_db) (dsp.py:71-108).
find_knees(in) ==
    IF KneeRefuses(in) THEN NaNKnees
    ELSE LET idx == RefIdx(in)
             ref_amp == in.amps[idx + 1]
             \* 20.0 * np.log10(ref_amp), without the floor (dsp.py:82)
             ref_db == DbFin(20 * ref_amp.e)
             target_db == ref_db.v - in.drop_db
         IN  <<KneeScan(in, 1, idx, target_db),
               KneeScan(in, idx + 1, Len(in.freqs) - 1, target_db),
               ref_amp, ref_db>>

\* The curves of the model; the k-th frequency is 10 * k Hz.
KneeCurves == UNION {[1..len -> Amps] : len \in 0..MaxKnee}

\* The arguments of a call of find_knees: every curve with each reference
\* mode and drop, and every curve with a frequency list one longer than its
\* amplitudes.
KneeInit ==
    /\ \/ k_in \in { [freqs |-> [j \in 1..Len(a) |-> 10 * j], amps |-> a,
                      ref_mode |-> r[1], ref_hz |-> r[2], drop_db |-> d] :
                       a \in KneeCurves,
                       r \in {<<"max", 1000>>, <<"freq", 15>>, <<"freq", 30>>},
                       d \in {-3, 0, 3, 20} }
       \/ k_in \in { [freqs |-> [j \in 1..(Len(a) + 1) |-> 10 * j], amps |-> a,
                      ref_mode |-> "max", ref_hz |-> 1000, drop_db |-> 3] :
                       a \in KneeCurves }
    /\ k_pc = "call"
    /\ k_out = <<>>

\* A call of find_knees (dsp.py:71-108).
CallFindKnees ==
    /\ k_pc = "call"
    /\ k_out' = find_knees(k_in)
    /\ k_pc' = "returned"
    /\ UNCHANGED k_in
    /\ UNCHANGED notKnee

KneeNext == CallFindKnees

InitKnee == KneeInit /\ SweepIdle /\ GuiIdle /\ ThdInit /\ PlanIdle /\ DspIdle /\ RepIdle /\ CfgIdle /\ DtIdle
SpecKnee == InitKnee /\ [][KneeNext]_vars

----------------------------------------------------------------------------
\* Two calls in a row of one analyser on the same arguments (dsp.py:19-28,
\* 30-69, 111-281; dsp_ext.py:19-82).
\*
\* The objects of the Python heap are kept in r_heap, an object's address
\* being its position.  The caller's time sequence is at address 1 and its
\* voltage sequence at address 2; each is a Python list or a numpy array.  A
\* call leaves behind the arrays it created, and the next call starts from the
\* heap the one before left.  The contents of a sequence are its samples for
\* vrms and vpp; for the spectral analysers the contents of the voltages are
\* their number n and the spectrum mag of the windowed samples, those of the
\* times the number n and the bin spacing df they give.
\*
\* No function of dsp.py and dsp_ext.py has a global statement or a mutable
\* default, and the modules bind nothing but np, __all__ and the functions:
\* what a call can leave to the next is in the heap.

MaxSamples == 3   \* longest sample list handed to vrms and vpp

\* The sample lists of the model.
SampleLists == UNION { [1..n -> (-MaxMag)..MaxMag] : n \in 0..MaxSamples }

\* A new numpy array with the given contents.
Alloc(heap, val) ==
    [heap |-> Append(heap, [kind |-> "ndarray", val |-> val]),
     ref |-> Len(heap) + 1]

\* _np_array(x) (dsp.py:19-20; dsp_ext.py:19-22): x itself when x is a numpy
\* array, else the new array np.asarray(x).
np_array(heap, x) ==
    IF heap[x].kind = "ndarray" THEN [heap |-> heap, ref |-> x]
    ELSE Alloc(heap, heap[x].val)

\* x.astype(float) (dsp.py:24, 31): a new array; copy=True is numpy's default.
astype(heap, x) == Alloc(heap, heap[x].val)

\* Mutant: the squares are written into the array itself,
\* np.square(v, out=v), without the copy of astype.
squared_in_place(heap, x) ==
    [heap |-> [heap EXCEPT ![x].val =
                 [j \in 1..Len(heap[x].val) |-> heap[x].val[j] * heap[x].val[j]]],
     ref |-> x]

\* np.square(v.astype(float)) (dsp.py:24): the squares, in a new array.
squared(heap, x) ==
    LET c == astype(heap, x)
    IN  Alloc(c.heap, [j \in 1..Len(c.heap[c.ref].val) |->
                         c.heap[c.ref].val[j] * c.heap[c.ref].val[j]])

\* vrms(v) (dsp.py:22-24): sqrt(mean(square(v))), NaN for no samples.  The
\* value is the square root of num / den, in lowest terms.
vrms(heap, v) ==
    LET a == np_array(heap, v)
    IN  IF Len(a.heap[a.ref].val) = 0 THEN [heap |-> a.heap, out |-> NaNRatio]
        ELSE LET sq == squared(a.heap, a.ref)
                 \* np.mean of the squares is sum / size
                 RECURSIVE SumOf(_)
                 SumOf(x) == IF x = <<>> THEN 0 ELSE Head(x) + SumOf(Tail(x))
                 sum == SumOf(sq.heap[sq.ref].val)
                 size == Len(sq.heap[sq.ref].val)
             IN  [heap |-> sq.heap,
                  out |-> [nan |-> FALSE, num |-> sum \div GCD(sum, size),
                           den |-> size \div GCD(sum, size)]]

\* vpp(v) (dsp.py:26-28): max(v) - min(v), NaN for no samples.  np.max and
\* np.min read the array, which is the caller's own when that is a numpy
\* array.
vpp(heap, v) ==
    LET a == np_array(heap, v)
        val == a.heap[a.ref].val
        max == CHOOSE x \in {val[j] : j \in 1..Len(val)} :
                 \A j \in 1..Len(val) : val[j] <= x
        min == CHOOSE x \in {val[j] : j \in 1..Len(val)} :
                 \A j \in 1..Len(val) : val[j] >= x
    IN  [heap |-> a.heap,
         out |-> IF Len(val) = 0 THEN [nan |-> TRUE, val |-> 0]
                 ELSE [nan |-> FALSE, val |-> max - min]]

\* t = _np_array(t).astype(float); v = _np_array(v).astype(float)
\* (dsp.py:31, 138-139, 226-227; dsp_ext.py:31-32): the locals t and v are new
\* arrays, and the body works on them: n = v.size, mag from v * w, which is a
\* new array too (dsp.py:46-49), the bin spacing from t (dsp.py:35-48).
Converted(heap, args) ==
    LET a == np_array(heap, 1)
        t == astype(a.heap, a.ref)
        b == np_array(t.heap, 2)
        v == astype(b.heap, b.ref)
    IN  [heap |-> v.heap,
         in |-> [n |-> v.heap[v.ref].val.n, mag |-> v.heap[v.ref].val.mag,
                 df |-> v.heap[t.ref].val.df, f0 |-> args.f0,
                 nharm |-> args.nharm, nharm_float |-> FALSE]]

\* noise_mask = np.ones(mag.size, dtype=bool) with the stores
\* noise_mask[0] = False, noise_mask[idx] = False, noise_mask[hk] = False
\* (dsp.py:174-185, 258-269): the only stores of the analysers go to this
\* new array.
Masked(name, c) ==
    IF CallLocals(name, c.in).masked
    THEN Alloc(c.heap, CallLocals(name, c.in).noise).heap
    ELSE c.heap

\* The arguments of the first call: a waveform for the spectral analysers, or
\* a sample list for vrms and vpp, each sequence a list or a numpy array.
RepeatInit ==
    /\ \/ /\ \E n \in SampleCounts,
                k \in {<<"list", "list">>, <<"list", "ndarray">>,
                       <<"ndarray", "ndarray">>} :
               \E m \in Spectra(n) :
                 r_heap = <<[kind |-> k[1], val |-> [n |-> n, df |-> 2]],
                            [kind |-> k[2], val |-> [n |-> n, mag |-> m]]>>
          /\ \E h \in {NoneVal, 4}, c \in NHarms :
               r_args = [f0 |-> h, nharm |-> c, before |-> r_heap]
          /\ d_pc = "call"
       \/ /\ \E kv \in {"list", "ndarray"}, samples \in SampleLists :
               r_heap = <<[kind |-> "list", val |-> <<>>],
                          [kind |-> kv, val |-> samples]>>
          /\ r_args = [f0 |-> NoneVal, nharm |-> 10, before |-> r_heap]
          /\ d_pc = "call_v"
    /\ d_in = <<>>
    /\ d_fn = "none"
    /\ d_out = <<>>
    /\ d_loc = <<>>
    /\ r_prev = <<>>

\* The caller's step around a call of the analyser name that leaves the heap
\* res.heap and returns res.out: the caller keeps the result, and the result
\* of the call before.
Called(name, res) ==
    /\ r_heap' = res.heap
    /\ r_prev' = d_out
    /\ d_out' = res.out
    /\ d_fn' = name
    /\ d_pc' = IF d_pc = "returned" THEN "repeated" ELSE "returned"
    /\ UNCHANGED <<d_in, d_loc, r_args>>

\* vrms(v), the first time or again (dsp.py:22-24).
TwiceVrms ==
    /\ d_pc = "call_v" \/ (d_pc = "returned" /\ d_fn = "vrms")
    /\ Called("vrms", vrms(r_heap, 2))
    /\ UNCHANGED notDspRep

\* vpp(v), the first time or again (dsp.py:26-28).
TwiceVpp ==
    /\ d_pc = "call_v" \/ (d_pc = "returned" /\ d_fn = "vpp")
    /\ Called("vpp", vpp(r_heap, 2))
    /\ UNCHANGED notDspRep

\* thd_fft(t, v, f0, nharm), the first time or again (dsp.py:30-69).
TwiceThdFft ==
    /\ d_pc = "call" \/ (d_pc = "returned" /\ d_fn = "thd_fft")
    /\ LET c == Converted(r_heap, r_args)
       IN  Called("thd_fft", [heap |-> c.heap, out |-> thd_fft(c.in)])
    /\ UNCHANGED notDspRep

\* harmonic_table(t, v, f0, nharm), the first time or again
\* (dsp_ext.py:25-64).
TwiceHarmonicTable ==
    /\ d_pc = "call" \/ (d_pc = "returned" /\ d_fn = "harmonic_table")
    /\ LET c == Converted(r_heap, r_args)
       IN  Called("harmonic_table", [heap |-> c.heap, out |-> harmonic_table(c.in)])
    /\ UNCHANGED notDspRep

\* thd_fft_waveform(t, v, f0, nharm), the first time or again
\* (dsp_ext.py:67-82).
TwiceThdFftWaveform ==
    /\ d_pc = "call" \/ (d_pc = "returned" /\ d_fn = "thd_fft_waveform")
    /\ LET c == Converted(r_heap, r_args)
       IN  Called("thd_fft_waveform",
                  [heap |-> c.heap, out |-> thd_fft_waveform(c.in)])
    /\ UNCHANGED notDspRep

\* snr_db(t, v, f0, nharm), the first time or again (dsp.py:111-197).
TwiceSnrDb ==
    /\ d_pc = "call" \/ (d_pc = "returned" /\ d_fn = "snr_db")
    /\ LET c == Converted(r_heap, r_args)
       IN  Called("snr_db", [heap |-> Masked("snr_db", c), out |-> snr_db(c.in)])
    /\ UNCHANGED notDspRep

\* noise_floor_db(t, v, f0, nharm), the first time or again
\* (dsp.py:200-281).
TwiceNoiseFloorDb ==
    /\ d_pc = "call" \/ (d_pc = "returned" /\ d_fn = "noise_floor_db")
    /\ LET c == Converted(r_heap, r_args)
       IN  Called("noise_floor_db",
                  [heap |-> Masked("noise_floor_db", c), out |-> noise_floor_db(c.in)])
    /\ UNCHANGED notDspRep

RepeatNext ==
    \/ TwiceVrms \/ TwiceVpp \/ TwiceThdFft \/ TwiceHarmonicTable
    \/ TwiceThdFftWaveform \/ TwiceSnrDb \/ TwiceNoiseFloorDb

InitRepeat == RepeatInit /\ SweepIdle /\ GuiIdle /\ ThdInit /\ PlanIdle /\ KneeIdle /\ CfgIdle /\ DtIdle
SpecRepeat == InitRepeat /\ [][RepeatNext]_vars

----------------------------------------------------------------------------
\* Configuration persistence: the calls of load_config, save_config and
\* update_config in any order (config.py, test_config_persistence.py).

CfgInit ==
    /\ cfg_cache = [set |-> FALSE, obj |-> <<>>]
    /\ cfg_file \in {[kind |-> "absent", obj |-> <<>>], [kind |-> "corrupt", obj |-> <<>>]}
                    \cup {JsonDumps(d) : d \in CfgDicts}
    /\ cfg_out = <<>>
    /\ cfg_written = <<>>
    /\ cfg_calls = "none"
    /\ cfg_last = [op |-> "none", arg |-> <<>>]
    /\ cfg_prev = [op |-> "none", arg |-> <<>>]

\* load_config() (config.py:18-35).
LoadConfig ==
    /\ cfg_cache' = [set |-> TRUE, obj |-> Loaded]
    /\ cfg_out' = Loaded
    /\ cfg_last' = [op |-> "load", arg |-> <<>>]
    /\ cfg_prev' = cfg_last
    /\ UNCHANGED <<cfg_file, cfg_written, cfg_calls>>
    /\ UNCHANGED notCfg

\* save_config(data) (config.py:38-46).
SaveConfig ==
    /\ \E d \in CfgDicts :
         /\ cfg_file' = JsonDumps(d)
         /\ cfg_last' = [op |-> "save", arg |-> d]
    /\ cfg_prev' = cfg_last
    /\ cfg_calls' = "mixed"
    /\ UNCHANGED <<cfg_cache, cfg_out, cfg_written>>
    /\ UNCHANGED notCfg

\* A call of update_config with some keys and values.
UpdateConfig ==
    /\ \E kv \in CfgDicts : update_config(kv)
    /\ UNCHANGED notCfg

\* _cmd_config_reset (unified_gui_layout.py:2198-2205): save_config({}).
ConfigReset ==
    /\ cfg_file' = JsonDumps(<<>>)
    /\ cfg_last' = [op |-> "reset", arg |-> <<>>]
    /\ cfg_prev' = cfg_last
    /\ cfg_calls' = "mixed"
    /\ UNCHANGED <<cfg_cache, cfg_out, cfg_written>>
    /\ UNCHANGED notCfg

CfgNext == LoadConfig \/ SaveConfig \/ UpdateConfig \/ ConfigReset

InitCfg == CfgInit /\ SweepIdle /\ GuiIdle /\ ThdInit /\ PlanIdle /\ DspIdle /\ KneeIdle /\ RepIdle /\ DtIdle
SpecCfg == InitCfg /\ [][CfgNext]_vars

----------------------------------------------------------------------------
\* The sample interval dt of the analysers (dsp.py:35-38, 144-147, 229-232;
\* dsp_ext.py:36-39).
\*
\* Time values are whole multiples of the smallest positive double, 5e-324 s.
\* Among such values double arithmetic adds and subtracts exactly, and a
\* quotient is rounded to the nearest multiple, ties to even.  dt is a record:
\* where it came from, and its value in the same unit (the nominal 1e-6 s is
\* not a small multiple and is carried by its source alone).

MaxTime == 3      \* largest time value of a waveform, in units of 5e-324 s

\* Waveform lengths: just long enough, and one more (an even number of
\* differences).
TimeCounts == {16, 17}

\* Non-decreasing time vectors of n values in 0..MaxTime: the vector steps up
\* by one at each index of up, a non-decreasing list of indices in 1..n+1
\* (n+1: the step is never taken).
StepsUp(n) ==
    { up \in [1..MaxTime -> 1..(n + 1)] : \A h \in 1..(MaxTime - 1) : up[h] <= up[h + 1] }
TimeVectors ==
    UNION { { [j \in 1..n |-> Cardinality({h \in 1..MaxTime : up[h] <= j})] :
              up \in StepsUp(n) } :
            n \in TimeCounts }

\* a / b in double arithmetic, for a >= 0 and b > 0: the nearest whole
\* multiple of the unit, ties to even.
RoundDiv(a, b) ==
    LET q == a \div b
        r == a % b
    IN  IF 2 * r < b THEN q
        ELSE IF 2 * r > b THEN q + 1
        ELSE IF q % 2 = 0 THEN q ELSE q + 1

\* np.median: the middle element of the sorted list, or the mean of its two
\* middle elements; kth(k) is the k-th smallest element.
Median(d) ==
    LET kth(k) == CHOOSE x \in {d[j] : j \in 1..Len(d)} :
                    /\ Cardinality({j \in 1..Len(d) : d[j] < x}) < k
                    /\ Cardinality({j \in 1..Len(d) : d[j] <= x}) >= k
    IN  IF Len(d) % 2 = 1 THEN kth((Len(d) + 1) \div 2)
        ELSE RoundDiv(kth(Len(d) \div 2) + kth(Len(d) \div 2 + 1), 2)

\* dt = float(np.median(np.diff(t))); if dt <= 0: span = t[-1] - t[0];
\* dt = span/(n-1) if span > 0 else 1e-6 (dsp.py:35-38).
SampleInterval(tv) ==
    LET diff == [j \in 1..(Len(tv) - 1) |-> tv[j + 1] - tv[j]]   \* np.diff(t)
        med == Median(diff)
        span == tv[Len(tv)] - tv[1]
    IN  IF med > 0 THEN [src |-> "median", val |-> med]
        ELSE IF span > 0 THEN [src |-> "span", val |-> RoundDiv(span, Len(tv) - 1)]
        ELSE [src |-> "nominal", val |-> 0]

DtInit ==
    /\ t_in \in TimeVectors
    /\ t_fn = "none"
    /\ t_pc = "call"
    /\ t_dt = <<>>

\* thd_fft up to fs = 1.0/dt (dsp.py:30-39).
DtThdFft ==
    /\ t_pc = "call"
    /\ t_fn' = "thd_fft"
    /\ t_dt' = SampleInterval(t_in)
    /\ t_pc' = "estimated"
    /\ UNCHANGED t_in
    /\ UNCHANGED notDt

\* snr_db up to the sample interval (dsp.py:111-147).
DtSnrDb ==
    /\ t_pc = "call"
    /\ t_fn' = "snr_db"
    /\ t_dt' = SampleInterval(t_in)
    /\ t_pc' = "estimated"
    /\ UNCHANGED t_in
    /\ UNCHANGED notDt

DtNext == DtThdFft \/ DtSnrDb

InitDt == DtInit /\ SweepIdle /\ GuiIdle /\ ThdInit /\ PlanIdle /\ DspIdle /\ KneeIdle /\ RepIdle /\ CfgIdle
SpecDt == InitDt /\ [][DtNext]_vars

\* C10: for every valid (start, stop, count) with count >= 2, in linear and in
\* log mode, build_freq_points returns exactly count values, whole multiples of
\* 1e-6, the first equal to round(start, 6) and the last to round(stop, 6).
C10_CountAndEndpoints ==
    /\ (p_pc # "call" /\ p_in.points >= 2 /\
          (IsLog(p_in.mode) => (p_in.start > 0 /\ p_in.stop > 0)))
         => p_pc = "returned"
    /\ p_pc = "returned" =>
         /\ Len(p_out.vals) = p_in.points
         /\ \A k \in 1..Len(p_out.vals) : p_out.vals[k] \in Int
         /\ p_out.vals[1] = p_out.round_start
         /\ p_out.vals[Len(p_out.vals)] = p_out.round_stop

\* C10 witness: a log plan of four points whose endpoints lose their seventh
\* decimal to the rounding (1.3e-6 -> 1e-6, 2.4e-6 -> 2e-6).
C10_Witness ==
    /\ p_pc = "returned"
    /\ p_in = [start |-> 13, stop |-> 24, points |-> 4, mode |-> <<"l", "o", "g">>]
    /\ p_out.vals[1] = 1 /\ p_out.vals[4] = 2

\* C11 (as claimed): for every valid (start, stop, count) with count >= 2 the
\* returned plan is strictly monotonic in the requested direction: strictly
\* increasing when start < stop, strictly decreasing when start > stop; no two
\* consecutive values are equal or out of order.
C11_StrictlyMonotonic ==
    p_pc = "returned" =>
      \A k \in 1..(Len(p_out.vals) - 1) :
        /\ p_in.start < p_in.stop => p_out.vals[k] < p_out.vals[k + 1]
        /\ p_in.start > p_in.stop => p_out.vals[k] > p_out.vals[k + 1]

\* C12: build_freq_points raises and returns no plan when count < 2, in
\* either mode, and in log mode when start <= 0 or stop <= 0.
C12_InvalidParameters ==
    (/\ p_pc # "call"
     /\ \/ p_in.points < 2
        \/ IsLog(p_in.mode) /\ (p_in.start <= 0 \/ p_in.stop <= 0))
      => (p_pc = "raised" /\ p_out = <<>>)

\* C12 witness: a plan of three points in mode "LOG" from a positive start to
\* a stop of zero was refused.
C12_Witness ==
    /\ p_pc = "raised"
    /\ p_in = [start |-> 10, stop |-> 0, points |-> 3, mode |-> <<"L", "O", "G">>]
    /\ p_out = <<>>

----------------------------------------------------------------------------
\* Helpers of the properties.
Count(ev) == Cardinality({p \in 1..Len(trace) : trace[p] = ev})
Done == pc = "done"
Callbacks == {"fy_apply", "capture", "dsp_vrms", "dsp_vpp", "dsp_thd_fft",
              "scope_measure"}
Rank(name) ==
    CASE name = "fy_apply" -> 1
      [] name = "capture" -> 2
      [] name = "scope_measure" -> 2
      [] name = "dsp_vrms" -> 3
      [] name = "dsp_vpp" -> 4
      [] name = "dsp_thd_fft" -> 5
      [] name = "row" -> 6
      [] OTHER -> 7

\* C1: whatever callbacks raise, a sweep returns (no state short of the return
\* is stuck) with exactly one row per plan frequency, in plan order, row k
\* carrying plan frequency k; while it runs, the rows recorded so far are those
\* of the frequencies already processed.
C1_FullLengthTable ==
    /\ ~Done => ENABLED SweepNext
    /\ Len(rows) = i - 1
    /\ Done => /\ Len(result.rows) = Len(freqs)
               /\ \A k \in 1..Len(freqs) : result.rows[k][1] = freqs[k]

\* C1 witness: a returned sweep of at least two frequencies, every point failed.
C1_Witness ==
    /\ Done /\ Len(freqs) >= 2
    /\ \A k \in 1..Len(freqs) : ret[k].raised # "no"
    /\ Len(result.rows) = Len(freqs)

OnlyCaptureRaisedAt(k) ==
    /\ ret[k].raised \in {"capture", "scope_measure"}
    /\ \A j \in 1..Len(freqs) : j # k => ret[j].raised = "no"

\* C2: when the capture raises for exactly one plan frequency and every other
\* call succeeds, the row at that index is all NaN (THD NaN when requested) and
\* every other row holds exactly what the metric callbacks returned for its
\* own frequency.
C2_FailureIsolated ==
    Done =>
      \A k \in 1..Len(freqs) :
        OnlyCaptureRaisedAt(k) =>
          /\ result.rows[k] =
                IF fn = "sweep_audio_kpis"
                THEN <<freqs[k], NaN, NaN, IF do_thd THEN NaN ELSE NoneVal>>
                ELSE <<freqs[k], NaN>>
          /\ \A j \in 1..Len(freqs) :
                j # k =>
                  result.rows[j] =
                    IF fn = "sweep_audio_kpis"
                    THEN <<freqs[j], ret[j].vr, ret[j].pp,
                           IF do_thd THEN ret[j].thd ELSE NoneVal>>
                    ELSE <<freqs[j], ret[j].val>>

\* C2 witness: a returned audio sweep with THD whose capture raised at the
\* middle frequency only, the two neighbours measured from different waveforms.
C2_Witness ==
    /\ Done /\ fn = "sweep_audio_kpis" /\ do_thd /\ Len(freqs) = 3
    /\ OnlyCaptureRaisedAt(2)
    /\ result.rows[1][2] # result.rows[3][2]
    /\ result.rows[2][2] = NaN

\* C3: no retry.  The stimulus is applied at most once per plan frequency and
\* exactly once by the time the sweep returns; the capture is invoked at most
\* once, and not at all when the stimulus raised; no callback is invoked more
\* than once for a frequency, and none after the callback that raised.
C3_NoRetry ==
    \A k \in 1..Len(freqs) :
      /\ \A c \in Callbacks : Count(<<c, k>>) <= 1
      /\ Done => Count(<<"fy_apply", k>>) = 1
      /\ ret[k].raised = "fy_apply" =>
            \A c \in Callbacks \ {"fy_apply"} : Count(<<c, k>>) = 0
      /\ ret[k].raised # "no" =>
            \A c \in Callbacks :
              Rank(c) > Rank(ret[k].raised) => Count(<<c, k>>) = 0

\* C3 witness: a returned sweep in which the stimulus raised at one frequency
\* and the capture raised at another.
C3_Witness ==
    /\ Done
    /\ \E k \in 1..Len(freqs) : ret[k].raised = "fy_apply"
    /\ \E k \in 1..Len(freqs) : ret[k].raised = "capture"

\* C4: points are processed one after another in plan order.  Two consecutive
\* events of the history either belong to the same frequency, the later one
\* being a later stage (stimulus, capture, metrics, row), or are the row of
\* frequency k followed by the stimulus of frequency k+1; the first event is
\* the stimulus of the first frequency.
C4_InOrder ==
    /\ Len(trace) >= 1 => trace[1] = <<"fy_apply", 1>>
    /\ \A p \in 1..(Len(trace) - 1) :
         LET a == trace[p]
             b == trace[p + 1]
         IN  \/ b[2] = a[2] /\ Rank(b[1]) > Rank(a[1])
             \/ a[1] = "row" /\ b = <<"fy_apply", a[2] + 1>>
             \/ a = <<"row", Len(freqs)>> /\ b[1] = "dsp_find_knees"

\* C4 witness: a returned audio sweep with THD of three frequencies in which
\* every callback returned.
C4_Witness ==
    /\ Done /\ fn = "sweep_audio_kpis" /\ do_thd /\ Len(freqs) = 3
    /\ \A k \in 1..3 : ret[k].raised = "no"
    /\ Len(trace) >= 18

\* C5 (as claimed): when knee detection is requested, the detector is invoked
\* exactly once, after the last point, with the full plan and an amplitude list
\* of the same length whose k-th element is the RMS of row k (NaN for a failed
\* point), and its result is attached.
C5_KneeSeriesAligned ==
    (Done /\ do_knees) =>
      /\ Len(kneeCalls) = 1
      /\ kneeCalls[1].fs = freqs
      /\ Len(kneeCalls[1].amps) = Len(freqs)
      /\ \A k \in 1..Len(freqs) : kneeCalls[1].amps[k] = result.rows[k][2]
      /\ result.has_knees
      /\ result.knees = dsp_find_knees(kneeCalls[1].fs, kneeCalls[1].amps)

\* C13 (as claimed): an audio sweep requested with a negative drop-dB threshold
\* is rejected before the stimulus is applied to any frequency: no callback is
\* invoked, no row is recorded and no result is returned.
C13_NegativeDropRejected ==
    (fn = "sweep_audio_kpis" /\ drop_db < 0) =>
      /\ trace = <<>>
      /\ rows = <<>>
      /\ pc # "done"

\* C26 (as claimed): with a dwell time above zero, every capture or
\* measurement of a point comes right after a dwell step of that point, which
\* follows the stimulus.
C26_DwellBeforeCapture ==
    dwell_s > 0 =>
      \A p \in 1..Len(trace) :
        trace[p][1] \in {"capture", "scope_measure"} =>
          /\ p >= 3
          /\ trace[p - 1] = <<"dwell", trace[p][2]>>
          /\ trace[p - 2] = <<"fy_apply", trace[p][2]>>

----------------------------------------------------------------------------
\* Properties of the GUI sweeps.
GCount(ev) == Cardinality({p \in 1..Len(g_trace) : g_trace[p] = ev})
GEnded == g_pc = "error"
GStarts == {"fy_apply_start", "capture_start"}
GEndOf(name) == IF name = "fy_apply_start" THEN "fy_apply_end" ELSE "capture_end"

\* C6 (as claimed): a GUI sweep that was not aborted writes one CSV line per
\* frequency of its plan, line k carrying frequency k; a failed point is a line
\* of NaN values.
C6_GuiCsvFullLength ==
    (GEnded /\ ~g_hist.broke) =>
      /\ Len(g_csv) = Len(g_freqs)
      /\ \A k \in 1..Len(g_freqs) : g_csv[k][1] = g_freqs[k]

\* C7: cooperative cancellation.  The abort flag is examined at most once per
\* sweep point and exactly once for every point the loop has come to, the
\* examination coming right before that point's stimulus call; once it has
\* been examined as set nothing else is started; a call that has started is
\* either still in flight with its completion enabled, or was followed
\* directly by its completion, whether or not Stop was pressed meanwhile.
C7_CooperativeAbort ==
    /\ \A k \in 1..Len(g_freqs) :
         /\ GCount(<<"check_set", k>>) + GCount(<<"check_clear", k>>) <= 1
         /\ (k < g_i \/ (k = g_i /\ g_pc # "check")) =>
               GCount(<<"check_set", k>>) + GCount(<<"check_clear", k>>) = 1
    /\ \A p \in 1..Len(g_trace) :
         LET e == g_trace[p]
         IN  /\ e[1] = "fy_apply_start" =>
                   p > 1 /\ g_trace[p - 1] = <<"check_clear", e[2]>>
             /\ e[1] = "capture_start" =>
                   /\ p > 2
                   /\ g_trace[p - 1] = <<"fy_apply_end", e[2]>>
                   /\ g_trace[p - 2] = <<"fy_apply_start", e[2]>>
             /\ e[1] = "check_set" => p = Len(g_trace)
             /\ e[1] \in GStarts =>
                   IF p = Len(g_trace)
                   THEN /\ g_pc \in {"in_apply", "in_capture"}
                        /\ g_i = e[2]
                        /\ ENABLED GuiApplyEnd \/ ENABLED GuiCaptureEnd
                   ELSE g_trace[p + 1] = <<GEndOf(e[1]), e[2]>>
    /\ g_pc \in {"in_apply", "in_capture"} =>
         Len(g_trace) > 0 /\ g_trace[Len(g_trace)][1] \in GStarts

\* C7 witness: Stop was pressed while the stimulus call of the first point was
\* in flight; the call ran to its end (it raised, and the loop went on), the
\* flag was found set at the second point, and nothing was started for it.
C7_Witness ==
    /\ GEnded /\ Len(g_freqs) >= 2
    /\ g_hist.stopAt = "in_apply"
    /\ g_trace[Len(g_trace)] = <<"check_set", 2>>
    /\ GCount(<<"fy_apply_end", 1>>) = 1
    /\ GCount(<<"fy_apply_start", 2>>) = 0

----------------------------------------------------------------------------
\* Properties of the THD tab.
AnalysedWaves == {analysed[p][1] : p \in 1..Len(analysed)}

\* C8: in every interleaving the queue holds at most one waveform; no step of
\* the worker's hand-off waits for the consumer; no captured waveform is lost:
\* right after the hand-off the queue holds exactly the waveform just captured
\* (an older entry is gone), unless the consumer has taken it already.
C8_SingleSlotHandOff ==
    /\ Len(thd_capture_queue) <= 1
    /\ dropped = <<>>
    /\ w_pc = "full" => ENABLED WorkerFull
    /\ w_pc = "get" => ENABLED WorkerGet
    /\ w_pc = "put" => ENABLED WorkerPut
    /\ w_pc = "sleep" =>
          \/ thd_capture_queue = <<w_wave>>
          \/ thd_capture_queue = <<>> /\ w_wave \in AnalysedWaves

\* C8 witness: the worker found the slot occupied by an older waveform, and
\* after the hand-off the queue holds the newer one only.
C8_Witness ==
    /\ w_pc = "sleep" /\ w_wave >= 2
    /\ thd_capture_queue = <<w_wave>>
    /\ (w_wave - 1) \notin AnalysedWaves
    /\ Len(analysed) >= 1

\* C9 (as claimed): the waveform the consumer obtains on a tick was never
\* captured earlier than a waveform it analysed on a previous tick.
C9_ConsumerNeverGoesBack ==
    \A p, q \in 1..Len(analysed) :
      (p < q /\ analysed[p][2] = "tick" /\ analysed[q][2] = "tick") =>
        analysed[p][1] <= analysed[q][1]

----------------------------------------------------------------------------
\* Properties of the spectral analysers.
Returned(name) == d_pc = "returned" /\ d_fn = name

\* The bins at the least distance from a frequency.
NearestBins(in, target) ==
    {k \in 0..Top(in) :
       \A j \in 0..Top(in) :
         Abs(BinFreq(in, k) - target) <= Abs(BinFreq(in, j) - target)}

\* k is a bin of the largest magnitude among bins 1..last.
IsMaxBin(in, k) ==
    /\ k \in 1..Top(in)
    /\ \A j \in 1..Top(in) : Mag(in, j) <= Mag(in, k)

\* The harmonic orders 2..top before the first one whose target frequency
\* exceeds the top frequency.
OrdersUpTo(in, idx, top) ==
    {k \in 2..top :
       \A j \in 2..k : j * BinFreq(in, idx) <= BinFreq(in, Top(in))}

\* The sum over the given orders of the squared magnitude of the bin nearest
\* the order's multiple of the fundamental bin frequency.
RECURSIVE SumOverOrders(_, _, _)
SumOverOrders(in, idx, orders) ==
    IF orders = {} THEN 0
    ELSE LET k == CHOOSE o \in orders : TRUE
             b == CHOOSE c \in NearestBins(in, k * BinFreq(in, idx)) : TRUE
         IN  Mag(in, b) * Mag(in, b) + SumOverOrders(in, idx, orders \ {k})

\* Every bin except bin 0, the fundamental and the harmonic bins thd_fft sums.
NoiseSet(in, idx) ==
    (1..Top(in)) \ ({idx} \cup
                    {HarmonicBins(in, idx, 2)[j] :
                       j \in 1..Len(HarmonicBins(in, idx, 2))})

\* C14: for a waveform of fewer than 16 samples, the empty one included,
\* nothing in thd_fft and thd_fft_waveform raises, and what they return is
\* (NaN, NaN, NaN).
C14_ShortWaveformNaN ==
    /\ (d_pc = "call" /\ d_in.n < 16) => ~SpectrumRaises(d_in)
    /\ ((Returned("thd_fft") \/ Returned("thd_fft_waveform")) /\ d_in.n < 16) =>
          d_out = <<NaNRatio, NaN, NaN>>

\* C14 witness: thd_fft_waveform was given 15 samples whose spectrum has a
\* line at bin 3, and returned the NaN triple.
C14_Witness ==
    /\ Returned("thd_fft_waveform")
    /\ d_in.n = 15 /\ Mag(d_in, 3) > 0
    /\ d_out = <<NaNRatio, NaN, NaN>>

\* C15: for a waveform of at least 16 samples the fundamental bin is never
\* bin 0; without a hint, or with a hint that is not positive, it is a bin of
\* largest magnitude among bins 1..last; with a positive hint it is a bin
\* nearest the hint, unless bin 0 is nearest, and then it is a bin of largest
\* magnitude among bins 1..last.  The frequency thd_fft returns and the first
\* entry of harmonic_table are those of that bin.
C15_FundamentalBin ==
    (d_pc = "returned" /\ d_in.n >= 16) =>
      /\ d_loc.idx \in 1..Top(d_in)
      /\ (d_in.f0 = NoneVal \/ d_in.f0 <= 0) => IsMaxBin(d_in, d_loc.idx)
      /\ (d_in.f0 # NoneVal /\ d_in.f0 > 0) =>
            IF 0 \in NearestBins(d_in, d_in.f0)
            THEN IsMaxBin(d_in, d_loc.idx)
            ELSE d_loc.idx \in NearestBins(d_in, d_in.f0)
      /\ d_fn = "thd_fft" => d_out[2] = BinFreq(d_in, d_loc.idx)
      /\ d_fn = "harmonic_table" =>
            /\ d_out[1].freq_hz = BinFreq(d_in, d_loc.idx)
            /\ d_out[1].mag = Mag(d_in, d_loc.idx)

\* C15 witness: snr_db was given a hint halfway between bin 0 and bin 1, and
\* took bin 5, the largest line of the spectrum, for the fundamental.
C15_Witness ==
    /\ Returned("snr_db")
    /\ d_in.n = 16 /\ d_in.f0 = 1
    /\ Mag(d_in, 5) = 2 /\ Mag(d_in, 1) = 1
    /\ d_loc.idx = 5

\* C16 (as claimed): for a waveform with a positive fundamental magnitude
\* thd_fft returns sqrt(s2) / fundamental magnitude, s2 being the sum, over
\* the orders k = 2..harmonic_count before the first one whose target exceeds
\* the top frequency, of the squared magnitude of the one bin nearest k times
\* the fundamental bin frequency.
C16_HarmonicSumAsClaimed ==
    (Returned("thd_fft") /\ d_in.n >= 16 /\ Mag(d_in, d_loc.idx) > 0) =>
      LET orders == OrdersUpTo(d_in, d_loc.idx, d_in.nharm)
      IN  /\ \A k \in orders :
                Cardinality(NearestBins(d_in, k * BinFreq(d_in, d_loc.idx))) = 1
          /\ d_out = <<Ratio(SumOverOrders(d_in, d_loc.idx, orders),
                             Mag(d_in, d_loc.idx)),
                       BinFreq(d_in, d_loc.idx), Mag(d_in, d_loc.idx)>>

\* C16 (amended): the same with the orders k = 2..max(2, harmonic_count): the
\* second harmonic is summed also when harmonic_count is below 2.
C16_HarmonicSum ==
    (Returned("thd_fft") /\ d_in.n >= 16 /\ Mag(d_in, d_loc.idx) > 0) =>
      LET top == IF d_in.nharm > 2 THEN d_in.nharm ELSE 2
          orders == OrdersUpTo(d_in, d_loc.idx, top)
      IN  /\ \A k \in orders :
                Cardinality(NearestBins(d_in, k * BinFreq(d_in, d_loc.idx))) = 1
          /\ d_out = <<Ratio(SumOverOrders(d_in, d_loc.idx, orders),
                             Mag(d_in, d_loc.idx)),
                       BinFreq(d_in, d_loc.idx), Mag(d_in, d_loc.idx)>>

\* C16 witness: thd_fft with harmonic_count 1, fundamental of magnitude 1 at
\* bin 2 and second harmonic of magnitude 2 at bin 4 returned the ratio 2.
C16_Witness ==
    /\ Returned("thd_fft")
    /\ d_in.n = 16 /\ d_in.nharm = 1 /\ d_in.f0 = 4
    /\ Mag(d_in, 2) = 1 /\ Mag(d_in, 4) = 2
    /\ d_out = <<[nan |-> FALSE, num |-> 4, den |-> 1], 4, 1>>

\* C17: for every waveform, hint and harmonic count, harmonic_table returns
\* its entries in increasing order k = 1, 2, ...; entry 1 is the fundamental
\* bin of thd_fft's rule and entry k >= 2 the bin thd_fft sums for order k;
\* thd_fft_waveform returns the triple thd_fft returns on the same arguments,
\* and neither of the two raises.
C17_TableMatchesThdFft ==
    /\ (Returned("harmonic_table") /\ d_in.n >= 16) =>
          LET bins == <<FundIdx(d_in)>> \o HarmonicBins(d_in, FundIdx(d_in), 2)
          IN  /\ Len(d_out) = Len(bins)
              /\ \A j \in 1..Len(bins) :
                   d_out[j] = [k |-> j, freq_hz |-> BinFreq(d_in, bins[j]),
                               mag |-> Mag(d_in, bins[j])]
    /\ Returned("thd_fft_waveform") => d_out = thd_fft(d_in)
    /\ d_pc # "raised"

\* C18: snr_db and noise_floor_db take their noise from the same bins: every
\* bin except bin 0, the fundamental and the harmonic bins thd_fft sums; when
\* there is no such bin both return NaN.
C18_SameNoiseBins ==
    (d_pc = "returned" /\ d_fn \in {"snr_db", "noise_floor_db"} /\ d_in.n >= 16) =>
      /\ d_fn = "noise_floor_db" => d_loc.masked
      /\ (d_fn = "snr_db" /\ Mag(d_in, d_loc.idx) > 0) => d_loc.masked
      /\ d_loc.masked => d_loc.noise = NoiseSet(d_in, d_loc.idx)
      /\ SnrNoiseBins(d_in, d_loc.idx) = FloorNoiseBins(d_in, d_loc.idx)
      /\ NoiseSet(d_in, d_loc.idx) = {} => d_out = NaNLevel

\* C18 witness: noise_floor_db with the fundamental at bin 1 and
\* harmonic_count 10 found every other bin to be a harmonic, and returned NaN.
C18_Witness ==
    /\ Returned("noise_floor_db")
    /\ d_in.n = 16 /\ d_in.nharm = 10
    /\ d_loc.idx = 1 /\ Mag(d_in, 1) > 0
    /\ d_loc.masked /\ d_loc.noise = {}
    /\ d_out = NaNLevel

\* The magnitudes of all the noise bins are zero: their RMS is exactly 0.
NoiseIsZero(in, idx) == \A b \in NoiseSet(in, idx) : Mag(in, b) = 0

\* C19 (as claimed): for a waveform of at least 16 samples that leaves at
\* least one noise bin, snr_db returns +infinity whenever the RMS of the noise
\* bins is exactly 0.
C19_InfiniteSnrAsClaimed ==
    (/\ Returned("snr_db") /\ d_in.n >= 16
     /\ NoiseSet(d_in, d_loc.idx) # {}
     /\ NoiseIsZero(d_in, d_loc.idx))
      => d_out = PosInf

\* C19 (amended): under the same conditions snr_db returns +infinity when the
\* fundamental magnitude is positive, and NaN when it is zero.
C19_InfiniteSnr ==
    (/\ Returned("snr_db") /\ d_in.n >= 16
     /\ NoiseSet(d_in, d_loc.idx) # {}
     /\ NoiseIsZero(d_in, d_loc.idx))
      => IF Mag(d_in, d_loc.idx) > 0 THEN d_out = PosInf ELSE d_out = NaNLevel

\* C19 witness: a single spectral line, nothing in the noise bins, and
\* snr_db returned +infinity.
C19_Witness ==
    /\ Returned("snr_db")
    /\ d_in.n = 16 /\ d_in.nharm = 2
    /\ Mag(d_in, d_loc.idx) > 0
    /\ NoiseSet(d_in, d_loc.idx) # {} /\ NoiseIsZero(d_in, d_loc.idx)
    /\ d_out = PosInf

\* C20: for a waveform of at least 16 samples that leaves at least one noise
\* bin, noise_floor_db returns -infinity when the RMS of the noise bins is
\* exactly 0 and 20 * log10(noise_rms) otherwise, whatever the magnitude of
\* the fundamental: another magnitude in the same fundamental bin gives the
\* same result.
C20_NoiseFloor ==
    (/\ Returned("noise_floor_db") /\ d_in.n >= 16
     /\ NoiseSet(d_in, d_loc.idx) # {})
      => /\ IF NoiseIsZero(d_in, d_loc.idx)
            THEN d_out = NegInf
            ELSE d_out = Db10(SumSqOver(d_in, NoiseSet(d_in, d_loc.idx)),
                              Cardinality(NoiseSet(d_in, d_loc.idx)))
         /\ \A m \in 0..MaxMag :
              LET other == [d_in EXCEPT !.mag[d_loc.idx + 1] = m]
              IN  FundIdx(other) = d_loc.idx => noise_floor_db(other) = d_out

\* C20 witness: the hinted fundamental bin is empty and a noise bin is not;
\* noise_floor_db returned a finite level.
C20_Witness ==
    /\ Returned("noise_floor_db")
    /\ d_in.n = 16 /\ d_in.f0 = 4
    /\ d_loc.idx = 2 /\ Mag(d_in, 2) = 0
    /\ d_out.kind = "db"

----------------------------------------------------------------------------
\* Properties of the knee detector.

\* The curve is usable: equal lengths, two samples at least, and a reference
\* amplitude that is positive and finite.
KneeUsable ==
    /\ Len(k_in.freqs) = Len(k_in.amps)
    /\ Len(k_in.freqs) >= 2
    /\ k_in.amps[RefIdx(k_in) + 1].kind = "pos"

\* The target level of a usable curve, and whether the adjacent pair
\* (j, j + 1), 1-based, straddles it.
KneeTarget == 20 * k_in.amps[RefIdx(k_in) + 1].e - k_in.drop_db
PairStraddles(j) ==
    Straddles(Log20(k_in.amps[j]), Log20(k_in.amps[j + 1]), KneeTarget)
\* The lowest straddling pair among pairs lo..hi; 0 when there is none.
FirstPair(lo, hi) ==
    IF \E j \in lo..hi : PairStraddles(j)
    THEN CHOOSE j \in lo..hi :
           PairStraddles(j) /\ \A h \in lo..(j - 1) : ~PairStraddles(h)
    ELSE 0
\* A knee that is a number lies within the frequencies of the pair.
WithinPair(knee, j) ==
    /\ k_in.freqs[j] * knee.den <= knee.num
    /\ knee.num <= k_in.freqs[j + 1] * knee.den
KneeFinitePair(j) ==
    Log20(k_in.amps[j]).kind = "fin" /\ Log20(k_in.amps[j + 1]).kind = "fin"
\* The knee of one side is a number within the lowest straddling pair of the
\* side; it is a number when that pair's levels are finite.
TakenFrom(knee, lo, hi) ==
    LET j == FirstPair(lo, hi)
    IN  j # 0 => /\ ~knee.nan => WithinPair(knee, j)
                 /\ KneeFinitePair(j) => ~knee.nan
\* The amplitude a is below the level of x dB: 20 * log10(a) < x, zero being
\* below every level.
BelowDb(a, x) == a.kind = "zero" \/ (a.kind = "pos" /\ 20 * a.e < x)
\* From the reference sample to sample p the response is at the reference
\* amplitude; after p it is below it, and somewhere below the target.
FlatThenRollOff(p) ==
    /\ \A j \in (RefIdx(k_in) + 1)..p : k_in.amps[j] = k_in.amps[RefIdx(k_in) + 1]
    /\ \A j \in (p + 1)..Len(k_in.amps) :
         AmpLess(k_in.amps[j], k_in.amps[RefIdx(k_in) + 1])
    /\ \E j \in (p + 1)..Len(k_in.amps) : BelowDb(k_in.amps[j], KneeTarget)

\* C21: find_knees returns (NaN, NaN, NaN, NaN) whenever the two sequences
\* differ in length, have fewer than two samples, or the amplitude at the
\* reference sample is not positive or not finite.
C21_UnusableCurveNaN ==
    (k_pc = "returned" /\
       (\/ Len(k_in.freqs) # Len(k_in.amps)
        \/ Len(k_in.freqs) < 2
        \/ k_in.amps[RefIdx(k_in) + 1].kind \in {"zero", "nan", "inf"}))
      => k_out = <<NaNKnee, NaNKnee, AmpNaN, DbNaN>>

\* C21 witness: the amplitude at the sample nearest ref_hz is infinite, the
\* first one is not, and all four values returned are NaN.
C21_Witness ==
    /\ k_pc = "returned"
    /\ Len(k_in.freqs) = 4 /\ Len(k_in.amps) = 4
    /\ k_in.ref_mode = "freq" /\ k_in.ref_hz = 30
    /\ k_in.amps[3] = AmpInf /\ k_in.amps[1] = Amp(0)
    /\ k_out = <<NaNKnee, NaNKnee, AmpNaN, DbNaN>>

\* C22 (as claimed): the low knee is taken from the lowest-index straddling
\* pair between the first sample and the reference, the high knee from the
\* lowest-index one between the reference and the last sample, each knee
\* lying within the frequencies of its pair; for a response flat at the
\* reference level that then rolls off below the target, f_hi is a number
\* greater than the last frequency of the flat part.
C22_KneesBracketedAsClaimed ==
    (k_pc = "returned" /\ KneeUsable) =>
      /\ TakenFrom(k_out[1], 1, RefIdx(k_in))
      /\ TakenFrom(k_out[2], RefIdx(k_in) + 1, Len(k_in.freqs) - 1)
      /\ \A p \in (RefIdx(k_in) + 1)..(Len(k_in.freqs) - 1) :
           FlatThenRollOff(p) =>
             /\ ~k_out[2].nan
             /\ k_out[2].num > k_in.freqs[p] * k_out[2].den

\* C22 (amended): the same about the pairs; for a response flat at the
\* reference level that then rolls off below the target, with the target
\* above the floor of -360 dB: for a drop above 0 dB f_hi is a number greater
\* than the last frequency of the flat part, and for a drop of 0 dB it is the
\* frequency right after the reference, or the reference frequency when the
\* flat part is the reference sample alone; with the target below the floor
\* f_hi is NaN.
C22_KneesBracketed ==
    (k_pc = "returned" /\ KneeUsable) =>
      /\ TakenFrom(k_out[1], 1, RefIdx(k_in))
      /\ TakenFrom(k_out[2], RefIdx(k_in) + 1, Len(k_in.freqs) - 1)
      /\ \A p \in (RefIdx(k_in) + 1)..(Len(k_in.freqs) - 1) :
           FlatThenRollOff(p) =>
             /\ (k_in.drop_db > 0 /\ KneeTarget > -360) =>
                   /\ ~k_out[2].nan
                   /\ k_out[2].num > k_in.freqs[p] * k_out[2].den
             /\ (k_in.drop_db = 0 /\ KneeTarget > -360) =>
                   k_out[2] = Frac(k_in.freqs[IF p > RefIdx(k_in) + 1
                                              THEN RefIdx(k_in) + 2
                                              ELSE RefIdx(k_in) + 1], 1)
             /\ KneeTarget < -360 => k_out[2] = NaNKnee

\* C22 witness: amplitudes 1, 1, 0.1 at 10, 20, 30 Hz with a drop of 3 dB: the
\* high knee is 21.5 Hz, three twentieths of the way from 20 to 30 Hz.
C22_Witness ==
    /\ k_pc = "returned"
    /\ k_in.amps = <<Amp(0), Amp(0), Amp(-1)>> /\ Len(k_in.freqs) = 3
    /\ k_in.ref_mode = "max" /\ k_in.drop_db = 3
    /\ k_out[2] = [nan |-> FALSE, num |-> 43, den |-> 2]

\* C23: a side on which no adjacent pair straddles the target has a NaN
\* knee, the reference being the first or the last sample included; the
\* reference amplitude and its level are returned all the same.
C23_UnresolvedKneeNaN ==
    (k_pc = "returned" /\ KneeUsable) =>
      /\ FirstPair(1, RefIdx(k_in)) = 0 => k_out[1] = NaNKnee
      /\ FirstPair(RefIdx(k_in) + 1, Len(k_in.freqs) - 1) = 0 => k_out[2] = NaNKnee
      /\ k_out[3] = k_in.amps[RefIdx(k_in) + 1]
      /\ k_out[4] = DbFin(20 * k_in.amps[RefIdx(k_in) + 1].e)

\* C23 witness: the reference is the last of three samples; the low knee is
\* a number, the high knee NaN, the reference level 20 dB.
C23_Witness ==
    /\ k_pc = "returned"
    /\ Len(k_in.amps) = 3 /\ Len(k_in.freqs) = 3
    /\ k_in.ref_mode = "max" /\ RefIdx(k_in) = 2
    /\ ~k_out[1].nan /\ k_out[2] = NaNKnee
    /\ k_out[3] = Amp(1) /\ k_out[4] = DbFin(20)

----------------------------------------------------------------------------
\* Properties of repeated calls.

\* C24: every analyser (vrms, vpp, thd_fft, harmonic_table, thd_fft_waveform,
\* snr_db, noise_floor_db) leaves the caller's time and voltage sequences as
\* they were before the first call, and a second call on the same arguments
\* returns what the first returned.
C24_Idempotent ==
    /\ d_pc \in {"returned", "repeated"} =>
          <<r_heap[1], r_heap[2]>> = r_args.before
    /\ d_pc = "repeated" => d_out = r_prev

\* C24 witness: vrms has been called twice on a numpy array of samples that
\* are not their own squares; the array is the one the body worked on, and
\* both calls returned the same.
C24_Witness ==
    /\ d_pc = "repeated"
    /\ d_fn = "vrms"
    /\ r_heap[2] = [kind |-> "ndarray", val |-> <<2, -1>>]
    /\ d_out = [nan |-> FALSE, num |-> 5, den |-> 2]
    /\ r_prev = d_out

----------------------------------------------------------------------------
\* Properties of the configuration store.

\* C25: after update_config calls only, load_config returns a dict that maps
\* every written key to the value written last, still holds the default keys,
\* and is the dict held by the configuration file.
C25_UpdatesPersist ==
    (cfg_calls = "updates" /\ cfg_last.op = "load") =>
        /\ \A k \in DOMAIN cfg_written :
             k \in DOMAIN cfg_out /\ cfg_out[k] = cfg_written[k]
        /\ DOMAIN DEFAULTS \subseteq DOMAIN cfg_out
        /\ cfg_file.kind = "json"
        /\ cfg_file.obj = cfg_out

\* Two keys have been written, one of them over a stored value, and
\* load_config has returned.
C25_Witness ==
    /\ cfg_calls = "updates"
    /\ cfg_last.op = "load"
    /\ cfg_prev.op = "update"
    /\ cfg_written = [k \in CfgKeys |-> "b"]
    /\ cfg_prev.arg = [k \in {"thd_f0"} |-> "b"]

\* C30: the load_config that follows save_config(d) returns d merged with the
\* defaults, whatever was loaded or updated before.
C30_LoadAfterSave ==
    (cfg_last.op = "load" /\ cfg_prev.op \in {"save", "reset"}) =>
        cfg_out = SetDefaults(cfg_prev.arg)

----------------------------------------------------------------------------
\* Properties of the sample interval.

\* C27 (as claimed): for a waveform of at least 16 samples with finite,
\* non-decreasing time values the sample interval is strictly positive: the
\* median of the time differences when that is positive, otherwise
\* (t_last - t_first)/(n-1) when that is positive, otherwise the nominal value.
C27_SampleIntervalPositive ==
    t_pc = "estimated" =>
        \/ t_dt.src = "median" /\ t_dt.val > 0
        \/ t_dt.src = "span" /\ t_dt.val > 0
        \/ t_dt.src = "nominal"

----------------------------------------------------------------------------
\* Properties of Start and Stop on the THD tab.

\* C28 (as claimed): whenever the refresh timer is running, the capture
\* worker is alive and its stop flag is clear.
C28_RunningHasWorker ==
    thd_timer => (w_pc \notin {"none", "dead"} /\ ~thd_capture_stop)

----------------------------------------------------------------------------
\* Properties of the loop that builds the frequency list.

\* C29 (as claimed): for every start, stop and step the loop that builds the
\* frequency list, once it has started, ends: the sweep goes on to its first
\* point, to its end or to a logged error.
C29_BuildTerminates == (g_pc = "build") ~> (g_pc # "build")

============================================================================
